---------------------------- MODULE Spec2Model ----------------------------
(***************************************************************************)
(* A model of the seogemini content pipeline.                              *)
(*                                                                         *)
(*   - GeminiClient (src/modules/api_client.py): credential and model      *)
(*     rotation, the retry loop of generate_content.                       *)
(*   - ArticleLinksManager (src/modules/article_links.py): the link graph  *)
(*     store with its whole-collection persistence.                        *)
(*   - is_valid_image_url and get_images (src/modules/image_search.py):    *)
(*     the memoized validity check and the search fallback chain.          *)
(*   - replace_image_placeholders and generate_seo_article                 *)
(*     (src/modules/article_generator.py): placeholder resolution and the  *)
(*     request pipeline.                                                   *)
(*                                                                         *)
(* Python indices are 0-based and are kept 0-based here; a sequence s is   *)
(* read at Python index i as s[i + 1].                                     *)
(***************************************************************************)
EXTENDS Integers, Sequences, FiniteSets, TLC

(***************************************************************************)
(* Bounds of the model                                                     *)
(***************************************************************************)
MaxKeys == 3        \* largest credential pool explored
MaxRetries == 3     \* largest max_retries argument explored
MaxCalls == 2       \* generate_content calls per behaviour
MaxAdds == 3        \* successful add_article calls per behaviour (the clock)
MaxLinks == 3       \* largest max_links argument explored
MaxSearches == 2    \* get_images calls per behaviour
MaxSubstitutions == 1   \* replace_image_placeholders calls per behaviour
MaxRequests == 2    \* generate_seo_article calls per behaviour
MaxTitleLen == 3    \* longest title given to generate_tags_from_title

\* Python's None
None == "None"

VARIABLES
    \* ---- GeminiClient ----
    api_keys,             \* self.api_keys
    current_key_index,    \* self.current_key_index
    current_model_index,  \* self.current_model_index
    pc,                   \* position of generate_content
    model_arg,            \* argument model of the running call
    model,                \* local: model of the running call
    max_retries,          \* argument of the running call
    retry_count,          \* local: retry_count
    result,               \* value returned or exception raised by the last call
    response,             \* outcome of the last requests.post
    request,              \* [key, model] of the last requests.post
    attempts,             \* requests.post calls made by the running call
    start_key,            \* current_key_index when the running call began
    start_model,          \* current_model_index when the running call began
    key_rotations,        \* _rotate_key calls since construction
    model_rotations,      \* _rotate_model calls since construction
    calls,                \* generate_content calls since construction
    \* ---- ArticleLinksManager ----
    articles,             \* self.articles
    file,                 \* the file self.filename
    clock,                \* datetime.datetime.now()
    op,                   \* the last operation called with its arguments
    ret,                  \* what the last operation returned
    \* ---- image_search ----
    cache,                \* is_valid_image_url.cache
    checks_made,          \* existence checks (HEAD requests) sent, per URL
    valid_call,           \* the last is_valid_image_url call and its outcome
    gi_pc,                \* position of get_images
    query,                \* argument of the running get_images call
    candidates,           \* images of the backend's answer not yet filtered
    all_valid_images,     \* local: valid_bing_images, then all_valid_images
    alt_index,            \* alternative queries tried by the running call
    fetches,              \* backend queries sent by the running call
    gi_ret,               \* what the last get_images call returned
    searches,             \* get_images calls made
    \* ---- article_generator: replace_image_placeholders ----
    rp_pc,                \* position of replace_image_placeholders
    rp_article,           \* argument article of the running call
    rp_subject,           \* argument subject of the running call
    image_descriptions,   \* local: image_descriptions
    modified_article,     \* local: modified_article, returned at the end
    marker_index,         \* local: i
    search_attempts,      \* local: attempts
    backup_index,         \* backup queries tried for the current placeholder
    resolved,             \* what each placeholder so far was replaced by
    substitutions,        \* replace_image_placeholders calls made
    \* ---- article_generator: generate_seo_article ----
    apikey_file,          \* the file apikey.txt
    gs_pc,                \* position of generate_seo_article
    gs_subject,           \* argument subject of the running request
    language,             \* local: language
    gs_title,             \* local: title
    gs_permalink,         \* local: permalink
    related_articles,     \* local: related_articles
    gs_article,           \* local: article, then article_with_images
    outcome,              \* the dict the last request returned, <<>> before
    requests,             \* generate_seo_article calls made
    prev_key_index,       \* current_key_index of generate_title's client at its return,
                          \* kept until generate_article returns
    \* ---- seo_utils ----
    tags_call,            \* the last generate_tags_from_title call and its outcome
    \* ---- article_links, another process ----
    other_store           \* a second ArticleLinksManager on the same file:
                          \* whether it is constructed, and its articles

clientVars == <<api_keys, current_key_index, current_model_index, pc, model_arg, model,
                max_retries, retry_count, result, response, request, attempts,
                start_key, start_model, key_rotations, model_rotations, calls>>

storeVars == <<articles, file, clock, op, ret>>

validVars == <<cache, checks_made, valid_call>>

imagesVars == <<gi_pc, query, candidates, all_valid_images, alt_index, fetches,
                gi_ret, searches>>

pipelineVars == <<apikey_file, gs_pc, gs_subject, language, gs_title,
                  gs_permalink, related_articles, gs_article, outcome, requests,
                  prev_key_index>>

placeholderVars == <<rp_pc, rp_article, rp_subject, image_descriptions,
                     modified_article, marker_index, search_attempts,
                     backup_index, resolved, substitutions>>

vars == <<api_keys, current_key_index, current_model_index, pc, model_arg, model,
          max_retries, retry_count, result, response, request, attempts,
          start_key, start_model, key_rotations, model_rotations, calls,
          articles, file, clock, op, ret,
          cache, checks_made, valid_call,
          gi_pc, query, candidates, all_valid_images, alt_index, fetches,
          gi_ret, searches,
          rp_pc, rp_article, rp_subject, image_descriptions, modified_article,
          marker_index, search_attempts, backup_index, resolved, substitutions,
          apikey_file, gs_pc, gs_subject, language, gs_title, gs_permalink,
          related_articles, gs_article, outcome, requests, prev_key_index,
          tags_call, other_store>>

\* what the steps of one component leave alone
outsideClient == <<storeVars, validVars, imagesVars, placeholderVars, pipelineVars,
                   tags_call, other_store>>

outsideStore == <<clientVars, validVars, imagesVars, placeholderVars, pipelineVars,
                  tags_call, other_store>>

outsideValid == <<clientVars, storeVars, imagesVars, placeholderVars, pipelineVars,
                  tags_call, other_store>>

\* get_images runs is_valid_image_url
outsideImages == <<clientVars, storeVars, placeholderVars, pipelineVars, tags_call, other_store>>

\* replace_image_placeholders runs get_images and is_valid_image_url
outsidePlaceholder == <<clientVars, storeVars, pipelineVars, tags_call, other_store>>

\* what the steps of generate_seo_article outside the store and the text
\* client leave alone
outsideRequest == <<validVars, imagesVars, placeholderVars, tags_call, other_store>>

(***************************************************************************)
(* GeminiClient                                                            *)
(***************************************************************************)

\* self.models
models == <<"gemini-1.5-flash", "gemini-2.0-flash">>

\* The credential pools explored: the first n keys, n = 0 .. MaxKeys
KeyPools == { [i \in 1..n |-> i] : n \in 0..MaxKeys }

\* The model arguments explored: unspecified (None or ""), or a named model
ModelArgs == {None, "", "gemini-2.0-flash", "gemini-pro"}

\* The max_retries arguments explored
RetryArgs == -1..MaxRetries

\* What one requests.post can come to
Responses == {"text",            \* 200, candidates[0].content.parts[0].text present
              "bad_candidate",   \* 200, candidates non-empty, no text in the first
              "no_candidates",   \* 200, "candidates" missing or empty
              "http_429",        \* HTTPError "429 ... Too Many Requests ..."
              "http_429_reason", \* HTTPError of status 429 with another reason phrase
              "http_error",      \* any other HTTPError
              "exception"}       \* connection error, timeout, invalid JSON, ...

\* GeminiClient.__init__
ClientInit ==
    /\ api_keys \in KeyPools
    /\ current_key_index = 0
    /\ current_model_index = 0
    /\ pc = "idle"
    /\ model_arg = None
    /\ model = None
    /\ max_retries = 0
    /\ retry_count = 0
    /\ result = None
    /\ response = None
    /\ request = <<>>
    /\ attempts = 0
    /\ start_key = 0
    /\ start_model = 0
    /\ key_rotations = 0
    /\ model_rotations = 0
    /\ calls = 0

_get_current_key == api_keys[current_key_index + 1]

_get_current_model == models[current_model_index + 1]

_rotate_key_no_wrap ==
    /\ current_key_index' = current_key_index + 1
    /\ key_rotations' = key_rotations + 1

_rotate_key ==
    /\ current_key_index' = (current_key_index + 1) % Len(api_keys)
    /\ key_rotations' = key_rotations + 1

_rotate_model_no_wrap ==
    /\ current_model_index' = current_model_index + 1
    /\ model_rotations' = model_rotations + 1

_rotate_model ==
    /\ current_model_index' = (current_model_index + 1) % Len(models)
    /\ model_rotations' = model_rotations + 1

\* while retry_count < max_retries
LoopOffByOne == retry_count <= max_retries

LoopCondition == retry_count < max_retries

\* generate_content is called: lines 57-60
generate_content(m, mr) ==
    /\ pc \in {"idle", "returned", "raised"}
    /\ calls < MaxCalls
    /\ calls' = calls + 1
    /\ model_arg' = m
    /\ model' = IF m \in {None, ""} THEN _get_current_model ELSE m
    /\ max_retries' = mr
    /\ retry_count' = 0
    /\ attempts' = 0
    /\ start_key' = current_key_index
    /\ start_model' = current_model_index
    /\ result' = None
    /\ response' = None
    /\ request' = <<>>
    /\ pc' = "loop"
    /\ UNCHANGED <<api_keys, current_key_index, current_model_index,
                   key_rotations, model_rotations>>
    /\ UNCHANGED outsideClient

\* the loop is entered with an empty pool: _get_current_key raises, outside the try
RaiseNoKeys ==
    /\ pc = "loop"
    /\ LoopCondition
    /\ api_keys = <<>>
    /\ pc' = "raised"
    /\ result' = "ValueError: No API keys available"
    /\ UNCHANGED <<api_keys, current_key_index, current_model_index, model_arg, model,
                   max_retries, retry_count, response, request, attempts,
                   start_key, start_model, key_rotations, model_rotations, calls>>
    /\ UNCHANGED outsideClient

\* the request of one attempt, lines 64-112
Post(r) ==
    /\ pc = "loop"
    /\ LoopCondition
    /\ api_keys # <<>>
    /\ request' = [key |-> _get_current_key, model |-> model]
    /\ attempts' = attempts + 1
    /\ response' = r

ReturnTextRotating ==
    /\ Post("text")
    /\ _rotate_key
    /\ _rotate_model
    /\ pc' = "returned"
    /\ result' = "text"
    /\ UNCHANGED <<api_keys, model_arg, model, max_retries, retry_count, start_key,
                   start_model, calls>>
    /\ UNCHANGED outsideClient

\* lines 117-119: the first candidate's text is returned
ReturnText ==
    /\ Post("text")
    /\ pc' = "returned"
    /\ result' = "text"
    /\ UNCHANGED <<api_keys, current_key_index, current_model_index, model_arg, model,
                   max_retries, retry_count, start_key, start_model,
                   key_rotations, model_rotations, calls>>
    /\ UNCHANGED outsideClient

\* lines 120-124: no candidates
NoCandidates ==
    /\ Post("no_candidates")
    /\ _rotate_key
    /\ _rotate_model
    /\ retry_count' = retry_count + 1
    /\ UNCHANGED <<api_keys, pc, model_arg, model, max_retries, result, start_key,
                   start_model, calls>>
    /\ UNCHANGED outsideClient

\* lines 126-136: HTTPError whose text holds "429" and "Too Many Requests";
\* the call then sleeps
RateLimited ==
    /\ Post("http_429")
    /\ _rotate_key
    /\ _rotate_model
    /\ pc' = "sleep"
    /\ UNCHANGED <<api_keys, model_arg, model, max_retries, retry_count, result, start_key,
                   start_model, calls>>
    /\ UNCHANGED outsideClient

\* lines 136, 142: time.sleep(1.5) returns
Sleep ==
    /\ pc = "sleep"
    /\ retry_count' = retry_count + 1
    /\ pc' = "loop"
    /\ UNCHANGED <<api_keys, current_key_index, current_model_index, model_arg, model,
                   max_retries, result, response, request, attempts, start_key,
                   start_model, key_rotations, model_rotations, calls>>
    /\ UNCHANGED outsideClient

HttpErrorKeyOnly ==
    /\ \E r \in {"http_error", "http_429_reason"} : Post(r)
    /\ _rotate_key
    /\ retry_count' = retry_count + 1
    /\ UNCHANGED <<api_keys, current_model_index, model_rotations, pc, model_arg, model,
                   max_retries, result, start_key, start_model, calls>>
    /\ UNCHANGED outsideClient

\* lines 137-142: any other HTTPError
HttpError ==
    /\ \E r \in {"http_error", "http_429_reason"} : Post(r)
    /\ _rotate_key
    /\ _rotate_model
    /\ retry_count' = retry_count + 1
    /\ UNCHANGED <<api_keys, pc, model_arg, model, max_retries, result, start_key,
                   start_model, calls>>
    /\ UNCHANGED outsideClient

\* lines 144-148: any other exception of the try block, the KeyError or
\* IndexError of line 118 on a candidate without text included
OtherException ==
    /\ \E r \in {"exception", "bad_candidate"} : Post(r)
    /\ _rotate_key
    /\ _rotate_model
    /\ retry_count' = retry_count + 1
    /\ UNCHANGED <<api_keys, pc, model_arg, model, max_retries, result, start_key,
                   start_model, calls>>
    /\ UNCHANGED outsideClient

\* line 151: the loop is left, None is returned
ReturnNone ==
    /\ pc = "loop"
    /\ ~LoopCondition
    /\ pc' = "returned"
    /\ result' = None
    /\ UNCHANGED <<api_keys, current_key_index, current_model_index, model_arg, model,
                   max_retries, retry_count, response, request, attempts,
                   start_key, start_model, key_rotations, model_rotations, calls>>
    /\ UNCHANGED outsideClient

\* the store when only the client runs
StoreIdle ==
    /\ articles = <<>>
    /\ file = [kind |-> "absent", data |-> <<>>]
    /\ clock = 0
    /\ op = [name |-> "init", permalink |-> None, subject |-> <<>>,
             data |-> <<>>, max_links |-> 0]
    /\ ret = None

ClientNext ==
    \/ \E m \in ModelArgs, mr \in RetryArgs : generate_content(m, mr)
    \/ RaiseNoKeys
    \/ ReturnText
    \/ NoCandidates
    \/ RateLimited
    \/ Sleep
    \/ HttpError
    \/ OtherException
    \/ ReturnNone


(***************************************************************************)
(* ArticleLinksManager                                                     *)
(***************************************************************************)

\* The arguments explored.  A subject is the sequence of its
\* whitespace-separated words, as str.split() yields them.
Titles == {"First", "Second"}

Permalinks == {"/a", "/b", "/c"}

Subjects == {<<"python", "web", "scraping">>,
             <<"Web", "scraping", "tools">>,
             <<"Python", "tutorials">>}

\* the new_data mappings of update_article explored
NewData == {[title |-> "Second"],
            [title |-> "First", subject |-> <<"Python", "tutorials">>],
            [permalink |-> "/b", timestamp |-> -1],
            [title |-> "Second", permalink |-> "/c"]}

\* the max_links arguments explored
LinkArgs == -1..MaxLinks

\* str.lower() on one word
Lower(w) ==
    CASE w = "Python" -> "python"
      [] w = "Web" -> "web"
      [] w = "Pet" -> "pet"
      [] w = "Care" -> "care"
      [] w = "Article" -> "article"
      [] w = "About" -> "about"
      [] OTHER -> w

\* set(subject.lower().split())
Words(subject) == { Lower(subject[i]) : i \in 1..Len(subject) }

\* the contents of the file: absent, unreadable, or a JSON list of records
NoFile == [kind |-> "absent", data |-> <<>>]

CorruptFile == [kind |-> "corrupt", data |-> <<>>]

JsonFile(a) == [kind |-> "json", data |-> a]

\* the files a store is constructed on
InitialFiles ==
    {NoFile, CorruptFile, JsonFile(<<>>),
     JsonFile(<<[title |-> "First", subject |-> <<"python", "web", "scraping">>,
                 permalink |-> "/a", timestamp |-> -1]>>)}

_load_articles_salvaging(f) ==
    IF f.kind = "json" THEN f.data
    ELSE <<[title |-> "First", subject |-> <<"python">>, permalink |-> "/a",
            timestamp |-> -1]>>

\* lines 17-25
_load_articles(f) == IF f.kind = "json" THEN f.data ELSE <<>>

\* the write is skipped
save_nothing(a) == file

save_articles(a) == JsonFile(a)

Operation(name, permalink, subject, data, max_links) ==
    [name |-> name, permalink |-> permalink, subject |-> subject,
     data |-> data, max_links |-> max_links]

\* ArticleLinksManager.__init__
StoreInit ==
    /\ file \in InitialFiles
    /\ articles = _load_articles(file)
    /\ clock = 0
    /\ op = Operation("init", None, <<>>, <<>>, 0)
    /\ ret = None

NeverPresent(permalink) == FALSE

\* lines 45-47: a record with this permalink exists
AlreadyPresent(permalink) ==
    \E i \in 1..Len(articles) : articles[i].permalink = permalink

\* lines 44-59
Add(title, subject, permalink) ==
    /\ op' = Operation("add", permalink, <<>>, <<>>, 0)
    /\ IF AlreadyPresent(permalink)
       THEN /\ ret' = FALSE
            /\ UNCHANGED <<articles, file, clock>>
       ELSE /\ clock < MaxAdds
            /\ articles' = Append(articles,
                                  [title |-> title, subject |-> subject,
                                   permalink |-> permalink, timestamp |-> clock])
            /\ clock' = clock + 1
            /\ file' = save_articles(articles')
            /\ ret' = TRUE

add_article(title, subject, permalink) ==
    /\ Add(title, subject, permalink)
    /\ UNCHANGED outsideStore

InsertBeforeEqual(sorted, x) ==
    LET before == { i \in 1..Len(sorted) : sorted[i].score > x.score }
        n == Cardinality(before)
    IN  SubSeq(sorted, 1, n) \o <<x>> \o SubSeq(sorted, n + 1, Len(sorted))

\* list.sort(key=score, reverse=True): stable, descending
InsertByScore(sorted, x) ==
    LET before == { i \in 1..Len(sorted) : sorted[i].score >= x.score }
        n == Cardinality(before)
    IN  SubSeq(sorted, 1, n) \o <<x>> \o SubSeq(sorted, n + 1, Len(sorted))

RECURSIVE SortByScore(_)
SortByScore(s) ==
    IF s = <<>> THEN <<>>
    ELSE InsertByScore(SortByScore(SubSeq(s, 1, Len(s) - 1)), s[Len(s)])

\* s[:k]
SliceAll(s, k) == s

Slice(s, k) ==
    LET n == IF k >= 0
             THEN (IF k < Len(s) THEN k ELSE Len(s))
             ELSE (IF Len(s) + k > 0 THEN Len(s) + k ELSE 0)
    IN  SubSeq(s, 1, n)

\* line 85
Overlap(subject, article) ==
    Cardinality(Words(subject) \cap Words(article.subject))

\* lines 77-92
RECURSIVE ScoredArticles(_, _, _)
ScoredArticles(as, subject, current_permalink) ==
    IF as = <<>> THEN <<>>
    ELSE LET article == as[Len(as)]
             rest == ScoredArticles(SubSeq(as, 1, Len(as) - 1), subject,
                                    current_permalink)
         IN  IF article.permalink = current_permalink THEN rest
             ELSE IF Overlap(subject, article) > 0
                  THEN Append(rest, [title |-> article.title,
                                     permalink |-> article.permalink,
                                     score |-> Overlap(subject, article)])
                  ELSE rest

get_related_articles(subject, current_permalink, max_links) ==
    Slice(SortByScore(ScoredArticles(articles, subject, current_permalink)),
          max_links)

\* a call of get_related_articles
Related(subject, current_permalink, max_links) ==
    /\ op' = Operation("related", current_permalink, subject, <<>>, max_links)
    /\ ret' = get_related_articles(subject, current_permalink, max_links)
    /\ UNCHANGED <<articles, file, clock>>
    /\ UNCHANGED outsideStore

\* the Python index of the first record with this permalink, -1 if none
IndexOf(permalink) ==
    LET found == { i \in 1..Len(articles) : articles[i].permalink = permalink }
    IN  IF found = {} THEN -1
        ELSE (CHOOSE i \in found : \A j \in found : i <= j) - 1

\* del self.articles[i]
Delete(s, i) == SubSeq(s, 1, i) \o SubSeq(s, i + 2, Len(s))

delete_article_unsaved(permalink) ==
    /\ op' = Operation("delete", permalink, <<>>, <<>>, 0)
    /\ IF IndexOf(permalink) >= 0
       THEN /\ articles' = Delete(articles, IndexOf(permalink))
            /\ ret' = TRUE
            /\ UNCHANGED file
       ELSE /\ ret' = FALSE
            /\ UNCHANGED <<articles, file>>
    /\ UNCHANGED clock
    /\ UNCHANGED outsideStore

delete_article(permalink) ==
    /\ op' = Operation("delete", permalink, <<>>, <<>>, 0)
    /\ IF IndexOf(permalink) >= 0
       THEN /\ articles' = Delete(articles, IndexOf(permalink))
            /\ file' = save_articles(articles')
            /\ ret' = TRUE
       ELSE /\ ret' = FALSE
            /\ UNCHANGED <<articles, file>>
    /\ UNCHANGED clock
    /\ UNCHANGED outsideStore

\* article.update(new_data)
UpdatedAllKeys(article, new_data) ==
    [k \in DOMAIN article |->
        IF k \in DOMAIN new_data THEN new_data[k] ELSE article[k]]

\* title and subject set, timestamp refreshed
UpdatedTouched(article, new_data) ==
    [k \in DOMAIN article |->
        IF k \in {"title", "subject"} /\ k \in DOMAIN new_data THEN new_data[k]
        ELSE IF k = "timestamp" THEN clock
        ELSE article[k]]

\* lines 125-128
Updated(article, new_data) ==
    [k \in DOMAIN article |->
        IF k \in {"title", "subject"} /\ k \in DOMAIN new_data THEN new_data[k]
        ELSE article[k]]

update_article(permalink, new_data) ==
    /\ op' = Operation("update", permalink, <<>>, new_data, 0)
    /\ IF IndexOf(permalink) >= 0
       THEN /\ articles' = [articles EXCEPT ![IndexOf(permalink) + 1] =
                                Updated(@, new_data)]
            /\ file' = save_articles(articles')
            /\ ret' = TRUE
       ELSE /\ ret' = FALSE
            /\ UNCHANGED <<articles, file>>
    /\ UNCHANGED clock
    /\ UNCHANGED outsideStore

\* the client when only the store runs
ClientIdle ==
    /\ ClientInit
    /\ api_keys = <<>>

\* add, update and delete on one store
StoreNext ==
    \/ \E t \in Titles, p \in Permalinks :
           \E s \in {<<"python", "web", "scraping">>, <<"Python", "tutorials">>} :
               add_article(t, s, p)
    \/ \E p \in Permalinks : delete_article(p)
    \/ \E p \in Permalinks, d \in NewData : update_article(p, d)


\* a store filled by add and queried by get_related_articles
RelatedNext ==
    \/ \E s \in Subjects, p \in Permalinks : add_article("First", s, p)
    \/ \E s \in Subjects, p \in {"/a", "/b", None}, n \in LinkArgs :
           Related(s, p, n)


(***************************************************************************)
(* image_search: is_valid_image_url                                        *)
(***************************************************************************)

\* reliable_stock_images of replace_image_placeholders
reliable_stock_images ==
    <<"https://cdn.pixabay.com/photo/2015/09/03/08/10/blog-920730_1280.jpg",
      "https://cdn.pixabay.com/photo/2015/01/08/18/24/programming-593312_1280.jpg",
      "https://cdn.pixabay.com/photo/2014/05/02/21/49/blogger-336371_1280.jpg",
      "https://cdn.pixabay.com/photo/2015/07/17/22/43/student-849825_1280.jpg",
      "https://cdn.pixabay.com/photo/2015/01/20/13/13/ipad-605439_1280.jpg">>

StockURLs == { reliable_stock_images[i] : i \in 1..Len(reliable_stock_images) }

\* `word in phrase`, on strings
Contains(phrase, word) ==
    \E i \in 1..(Len(phrase) - Len(word) + 1) :
        SubSeq(phrase, i, i + Len(word) - 1) = word

\* str.startswith
startswith(text, prefix) ==
    Len(text) >= Len(prefix) /\ SubSeq(text, 1, Len(prefix)) = prefix

UpperCase == "ABCDEFGHIJKLMNOPQRSTUVWXYZ"
LowerCase == "abcdefghijklmnopqrstuvwxyz"

\* line 132: url.lower(), character by character
RECURSIVE lower_url(_)
lower_url(url) ==
    IF url = "" THEN ""
    ELSE LET c == SubSeq(url, 1, 1)
             up == { i \in 1..Len(UpperCase) : SubSeq(UpperCase, i, i) = c }
         IN (IF up = {} THEN c
             ELSE LET i == CHOOSE i \in up : TRUE IN SubSeq(LowerCase, i, i))
            \o lower_url(SubSeq(url, 2, Len(url)))

\* line 135
bad_formats == {".gif", ".svg", ".webp", ".ico", ".icon"}

\* lines 140-142
bad_patterns ==
    {"icon", "placeholder", "blank", "transparent", "logo", "button",
     "favicon", "pixel.", "spacer", "spinner", "loading", "1x1",
     "avatar", "profile-pic"}

\* lines 149-157
reliable_domains ==
    {"cdn.pixabay.com", "images.unsplash.com", "img.freepik.com",
     "upload.wikimedia.org", "i.pinimg.com", "cdn.statically.io"}

\* line 161
good_extensions == {".jpg", ".jpeg", ".png"}

\* The URLs explored: no character, another scheme, a format, a pattern and
\* a pattern in capitals that the checks reject, a pattern on a reliable
\* domain, reliable domains with and without an extension, other hosts
URLs ==
    {"", "ftp://host/a.jpg", "https://host/a.gif", "https://host/logo.jpg",
     "https://host/Logo.JPG", "https://cdn.pixabay.com/logo.png",
     "https://cdn.pixabay.com/a.jpg", "https://cdn.pixabay.com/a",
     "https://host/a.jpg", "https://host/b.jpg"} \cup StockURLs

\* line 127: not url, or no http:// or https:// prefix
NoSchemeURLs ==
    { u \in URLs : u = "" \/ ~(startswith(u, "http://") \/ startswith(u, "https://")) }

\* line 135: .gif, .svg, .webp, .ico or .icon in the URL
BadFormatURLs == { u \in URLs : \E ext \in bad_formats : Contains(lower_url(u), ext) }

\* line 144: one of bad_patterns in the URL
BadPatternURLs ==
    { u \in URLs : \E pattern \in bad_patterns : Contains(lower_url(u), pattern) }

\* line 159: one of reliable_domains in the URL
ReliableDomainURLs ==
    { u \in URLs : \E domain \in reliable_domains : Contains(lower_url(u), domain) }

\* line 161: .jpg, .jpeg or .png in the URL
GoodExtensionURLs ==
    { u \in URLs : \E ext \in good_extensions : Contains(lower_url(u), ext) }

\* URLs none of the string tests decides
PlainURLs ==
    { u \in URLs : /\ u \notin NoSchemeURLs \cup BadFormatURLs \cup BadPatternURLs
                   /\ ~(u \in ReliableDomainURLs /\ u \in GoodExtensionURLs) }

\* what requests.head comes to
HeadOutcomes == {"exception",       \* the request raises
                 "status",          \* status_code is not 200
                 "type",            \* Content-Type does not start with image/
                 "length_small",    \* Content-Length is a number below 8192
                 "length_ok",       \* Content-Length is a number, 8192 or more
                 "length_unknown"}  \* Content-Length is missing or no number

\* what the partial requests.get comes to
GetOutcomes == {"exception",   \* the request or the read raises
                "short",       \* the first chunk has fewer than 8192 bytes
                "full"}        \* the first chunk has 8192 bytes

NoCheck == [head |-> "none", get |-> "none"]

ValidInit ==
    /\ cache = <<>>
    /\ checks_made = [u \in URLs |-> 0]
    /\ valid_call = [url |-> None, ret |-> FALSE, head |-> "none", get |-> "none"]

CachedNever(url) == FALSE

\* line 122
Cached(url) == url \in DOMAIN cache

FastVerdictReliableFirst(url) ==
    IF url \in NoSchemeURLs THEN "reject"
    ELSE IF url \in ReliableDomainURLs /\ url \in GoodExtensionURLs THEN "accept"
    ELSE IF url \in BadFormatURLs THEN "reject"
    ELSE IF url \in BadPatternURLs THEN "reject"
    ELSE "check"

\* lines 127-163: "reject", "accept", or "check" when the network decides
FastVerdict(url) ==
    IF url \in NoSchemeURLs THEN "reject"
    ELSE IF url \in BadFormatURLs THEN "reject"
    ELSE IF url \in BadPatternURLs THEN "reject"
    ELSE IF url \in ReliableDomainURLs /\ url \in GoodExtensionURLs THEN "accept"
    ELSE "check"

\* the outcomes the network can give to a call for this URL
Checks(url) ==
    IF Cached(url) \/ FastVerdict(url) # "check" THEN {NoCheck}
    ELSE { [head |-> h, get |-> "none"] : h \in HeadOutcomes \ {"length_unknown"} }
         \cup { [head |-> "length_unknown", get |-> g] : g \in GetOutcomes }

NetworkVerdictFailOpen(check) ==
    CASE check.head \in {"status", "type", "length_small"} -> FALSE
      [] check.head \in {"exception", "length_ok"} -> TRUE
      [] check.head = "length_unknown" -> check.get # "short"

\* lines 166-206
NetworkVerdict(check) ==
    CASE check.head \in {"exception", "status", "type", "length_small"} -> FALSE
      [] check.head = "length_ok" -> TRUE
      [] check.head = "length_unknown" -> check.get # "short"

\* what is_valid_image_url(url) returns when the network gives check
IsValid(url, check) ==
    IF Cached(url) THEN cache[url]
    ELSE CASE FastVerdict(url) = "reject" -> FALSE
           [] FastVerdict(url) = "accept" -> TRUE
           [] OTHER -> NetworkVerdict(check)

\* the effect of is_valid_image_url(url) on the cache
Validate(url, check) ==
    /\ valid_call' = [url |-> url, ret |-> IsValid(url, check),
                      head |-> check.head, get |-> check.get]
    /\ cache' = IF Cached(url) THEN cache
                ELSE [u \in DOMAIN cache \cup {url} |->
                         IF u = url THEN IsValid(url, check) ELSE cache[u]]
    /\ checks_made' = IF check.head = "none" THEN checks_made
                      ELSE [checks_made EXCEPT ![url] = @ + 1]

\* a call of is_valid_image_url
is_valid_image_url(url, check) ==
    /\ Validate(url, check)
    /\ UNCHANGED outsideValid

ValidNext ==
    \E url \in URLs \ StockURLs : \E check \in Checks(url) :
        is_valid_image_url(url, check)

(***************************************************************************)
(* image_search: get_images                                                *)
(***************************************************************************)

\* Search queries, as their words
Queries == {<<"python">>, <<"learn", "python", "web", "scraping">>}

\* What a backend answers: the URLs of at most 5 images, in page order.
\* get_images_from_bing and get_images_from_yahoo answer [] on any failure.
ImageLists ==
    {<<>>,
     <<"https://host/a.jpg">>,
     <<"https://host/logo.jpg", "https://host/b.jpg">>,
     <<"https://cdn.pixabay.com/a.jpg", "https://host/a.jpg", "https://host/b.jpg">>,
     <<"https://cdn.pixabay.com/a.jpg", "https://host/a.gif", "https://host/a.jpg",
       "https://cdn.pixabay.com/a", "https://host/b.jpg">>,
     <<"https://cdn.pixabay.com/a.jpg", "https://cdn.pixabay.com/a.jpg",
       "https://host/a.jpg", "https://host/a.jpg", "https://cdn.pixabay.com/a.jpg">>}

\* the image objects of a backend's answer; the title plays no part
Images(urls, source) == [i \in 1..Len(urls) |-> [url |-> urls[i], source |-> source]]

\* lines 248-253; query.split() and ' '.join() work on the words
alternative_queries(q) ==
    <<Slice(q, 3),
      q \o <<"high", "quality", "image">>,
      q \o <<"featured", "image">>,
      Slice(q, 2) \o <<"guide", "image">>>>

ImagesInit ==
    /\ gi_pc = "idle"
    /\ query = <<>>
    /\ candidates = <<>>
    /\ all_valid_images = <<>>
    /\ alt_index = 0
    /\ fetches = <<>>
    /\ gi_ret = <<>>
    /\ searches = 0

KeepAny(images, img, valid) == Append(images, img)

\* lines 224-225, 239-240, 266-267: only a valid image is appended
Keep(images, img, valid) == IF valid THEN Append(images, img) ELSE images

\* get_images(query) is called and queries Bing (lines 218-221)
SearchBing(q, lists) ==
    /\ gi_pc \in {"idle", "returned"}
    /\ query' = q
    /\ \E urls \in lists : candidates' = Images(urls, "Bing")
    /\ all_valid_images' = <<>>
    /\ alt_index' = 0
    /\ fetches' = <<[backend |-> "Bing", query |-> q]>>
    /\ gi_pc' = "bing"
    /\ UNCHANGED gi_ret

\* one turn of a filtering loop (lines 224-229, 239-244, 265-270)
Filter ==
    /\ gi_pc \in {"bing", "yahoo", "alt"}
    /\ candidates # <<>>
    /\ \E check \in Checks(Head(candidates).url) :
          LET img == Head(candidates)
              valid == IsValid(img.url, check)
              kept == Keep(all_valid_images, img, valid)
          IN /\ Validate(img.url, check)
             /\ all_valid_images' = kept
             \* line 269: the cap ends the loop over this answer
             /\ candidates' = IF gi_pc = "alt" /\ valid /\ Len(kept) >= 5
                              THEN <<>> ELSE Tail(candidates)
    /\ UNCHANGED <<gi_pc, query, alt_index, fetches, gi_ret, searches>>

\* lines 232-233
ReturnBing ==
    /\ gi_pc = "bing"
    /\ candidates = <<>>
    /\ Len(all_valid_images) >= 3
    /\ gi_ret' = all_valid_images
    /\ gi_pc' = "returned"
    /\ UNCHANGED <<query, candidates, all_valid_images, alt_index, fetches,
                   searches, validVars>>

SearchYahooAlways(lists) ==
    /\ gi_pc = "bing"
    /\ candidates = <<>>
    /\ \E urls \in lists : candidates' = Images(urls, "Yahoo")
    /\ fetches' = Append(fetches, [backend |-> "Yahoo", query |-> query])
    /\ gi_pc' = "yahoo"
    /\ UNCHANGED <<query, all_valid_images, alt_index, gi_ret, searches, validVars>>

\* line 236
SearchYahoo(lists) ==
    /\ gi_pc = "bing"
    /\ candidates = <<>>
    /\ Len(all_valid_images) < 3
    /\ \E urls \in lists : candidates' = Images(urls, "Yahoo")
    /\ fetches' = Append(fetches, [backend |-> "Yahoo", query |-> query])
    /\ gi_pc' = "yahoo"
    /\ UNCHANGED <<query, all_valid_images, alt_index, gi_ret, searches, validVars>>

SearchAlternativeUnchecked(lists) ==
    /\ \/ gi_pc = "yahoo" /\ Len(all_valid_images) < 2
       \/ gi_pc = "alt"
    /\ candidates = <<>>
    /\ alt_index < Len(alternative_queries(query))
    /\ \E urls \in lists : candidates' = Images(urls, "Bing")
    /\ fetches' = Append(fetches, [backend |-> "Bing",
                                   query |-> alternative_queries(query)[alt_index + 1]])
    /\ alt_index' = alt_index + 1
    /\ gi_pc' = "alt"
    /\ UNCHANGED <<query, all_valid_images, gi_ret, searches, validVars>>

\* lines 250, 256-264: the next alternative query, on Bing
SearchAlternative(lists) ==
    /\ \/ gi_pc = "yahoo" /\ Len(all_valid_images) < 2
       \/ gi_pc = "alt"
    /\ candidates = <<>>
    /\ alt_index < Len(alternative_queries(query))
    /\ Len(all_valid_images) < 3
    /\ \E urls \in lists : candidates' = Images(urls, "Bing")
    /\ fetches' = Append(fetches, [backend |-> "Bing",
                                   query |-> alternative_queries(query)[alt_index + 1]])
    /\ alt_index' = alt_index + 1
    /\ gi_pc' = "alt"
    /\ UNCHANGED <<query, all_valid_images, gi_ret, searches, validVars>>

\* lines 272-273
ReturnAll ==
    /\ \/ gi_pc = "yahoo" /\ Len(all_valid_images) >= 2
       \/ /\ gi_pc = "alt"
          /\ \/ alt_index = Len(alternative_queries(query))
             \/ Len(all_valid_images) >= 3
    /\ candidates = <<>>
    /\ gi_ret' = all_valid_images
    /\ gi_pc' = "returned"
    /\ UNCHANGED <<query, candidates, all_valid_images, alt_index, fetches,
                   searches, validVars>>

get_images ==
    /\ searches < MaxSearches
    /\ \E q \in Queries : SearchBing(q, ImageLists)
    /\ searches' = searches + 1
    /\ UNCHANGED validVars

ImagesNext ==
    \/ get_images /\ UNCHANGED outsideImages
    \/ Filter /\ UNCHANGED outsideImages
    \/ ReturnBing /\ UNCHANGED outsideImages
    \/ SearchYahoo(ImageLists) /\ UNCHANGED outsideImages
    \/ SearchAlternative(ImageLists) /\ UNCHANGED outsideImages
    \/ ReturnAll /\ UNCHANGED outsideImages

(***************************************************************************)
(* article_generator: replace_image_placeholders                           *)
(*                                                                         *)
(* Text is a sequence of tokens: the opening "[IMAGE: " of a placeholder,  *)
(* the closing "]", the newline, and words.  What the code writes is kept  *)
(* in the tokens the pattern can tell apart: the "](" of a markdown image  *)
(* is the closing "]" followed by "(".                                     *)
(***************************************************************************)

OPEN == "[IMAGE: "

CLOSE == "]"

NL == "\n"

\* Article texts
Articles ==
    {<<"text">>,
     <<"text", OPEN, "cat", CLOSE, "text">>,
     <<OPEN, "cat", CLOSE, NL, OPEN, "dog", CLOSE>>,
     <<OPEN, "cat", CLOSE, "text", OPEN, "cat", CLOSE>>,
     <<OPEN, "cat", OPEN, "dog", CLOSE>>,
     <<OPEN, "cat", NL, "dog", CLOSE, OPEN, "cat">>,
     <<OPEN, "cat", CLOSE, OPEN, "dog", CLOSE, OPEN, "owl", CLOSE>>}

PlaceholderSubjects == {<<"pets">>}

\* the backends' answers explored with replace_image_placeholders
FewImageLists ==
    {<<>>,
     <<"https://host/logo.jpg">>,
     <<"https://cdn.pixabay.com/a.jpg">>,
     <<"https://host/a.jpg", "https://cdn.pixabay.com/a.jpg",
       "https://cdn.pixabay.com/a.jpg">>}

\* where (.*?)\] ends for a placeholder opening at p: the first "]" after p
\* with no newline before it; 0 when there is none
CloseOf(article, p) ==
    LET cs == { c \in (p + 1)..Len(article) :
                  /\ article[c] = CLOSE
                  /\ \A k \in (p + 1)..(c - 1) : article[k] # NL }
    IN IF cs = {} THEN 0 ELSE CHOOSE c \in cs : \A d \in cs : c <= d

\* re.findall(r'\[IMAGE: (.*?)\]', article), scanning from p
RECURSIVE FindFrom(_, _)
FindFrom(article, p) ==
    IF p > Len(article) THEN <<>>
    ELSE IF article[p] = OPEN /\ CloseOf(article, p) # 0
         THEN <<SubSeq(article, p + 1, CloseOf(article, p) - 1)>>
              \o FindFrom(article, CloseOf(article, p) + 1)
         ELSE FindFrom(article, p + 1)

\* line 140
findall(article) == FindFrom(article, 1)

\* str.replace(old, new): every occurrence of old, left to right
RECURSIVE ReplaceFrom(_, _, _, _)
ReplaceFrom(article, old, new, p) ==
    IF p > Len(article) THEN <<>>
    ELSE IF /\ p + Len(old) - 1 <= Len(article)
            /\ SubSeq(article, p, p + Len(old) - 1) = old
         THEN new \o ReplaceFrom(article, old, new, p + Len(old))
         ELSE <<article[p]>> \o ReplaceFrom(article, old, new, p + 1)

Replace(article, old, new) == ReplaceFrom(article, old, new, 1)

\* f"[IMAGE: {description}]"
Placeholder(description) == <<OPEN>> \o description \o <<CLOSE>>

\* f"![{img_title}]({img_url})"
img_tag(description, url) == <<"![">> \o description \o <<CLOSE, "(", url, ")">>

\* f"<!-- Error finding image: {description} - {str(e)} -->"
error_comment(description) ==
    <<"<!-- Error finding image: ">> \o description \o <<" - ", "error", " -->">>

\* the description of the placeholder in hand
description == image_descriptions[marker_index + 1]

retry_query_subject_first(n) ==
    CASE n = 1 -> rp_subject
      [] n = 2 -> description
      [] OTHER -> rp_subject \o <<"image">>

\* lines 157-167: the query of retry n
retry_query(n) ==
    CASE n = 1 -> description
      [] n = 2 -> rp_subject
      [] OTHER -> rp_subject \o <<"image">>

\* lines 203-208
backup_queries ==
    <<rp_subject \o description \o <<"tutorial", "image">>,
      rp_subject \o description \o <<"high", "quality">>,
      <<"professional", "blogging", "image">>,
      <<"content", "marketing", "illustration">>>>

\* i % len(reliable_stock_images)
stock_index == marker_index % Len(reliable_stock_images)

PlaceholderInit ==
    /\ rp_pc = "idle"
    /\ rp_article = <<>>
    /\ rp_subject = <<>>
    /\ image_descriptions = <<>>
    /\ modified_article = <<>>
    /\ marker_index = 0
    /\ search_attempts = 0
    /\ backup_index = 0
    /\ resolved = <<>>
    /\ substitutions = 0

\* the placeholder in hand is replaced and the loop goes on (line 148)
ReplaceWith(kind, url, text) ==
    /\ modified_article' = Replace(modified_article, Placeholder(description), text)
    /\ resolved' = Append(resolved, [description |-> description, kind |-> kind,
                                     url |-> url])
    /\ IF marker_index + 1 < Len(image_descriptions)
       THEN marker_index' = marker_index + 1 /\ rp_pc' = "marker"
       ELSE marker_index' = marker_index /\ rp_pc' = "returned"
    /\ UNCHANGED <<rp_article, rp_subject, image_descriptions, search_attempts,
                   backup_index, substitutions>>

\* lines 138-147: the call; with no placeholder the article is returned as is
replace_image_placeholders(article, subj) ==
    /\ rp_pc \in {"idle", "returned"}
    /\ gi_pc \in {"idle", "returned"}
    /\ rp_article' = article
    /\ rp_subject' = subj
    /\ image_descriptions' = findall(article)
    /\ modified_article' = article
    /\ marker_index' = 0
    /\ search_attempts' = 0
    /\ backup_index' = 0
    /\ resolved' = <<>>
    /\ rp_pc' = IF findall(article) = <<>> THEN "returned" ELSE "marker"
    /\ UNCHANGED <<validVars, imagesVars>>

\* lines 150-156: the first query of a placeholder
FirstSearch(lists) ==
    /\ rp_pc = "marker"
    /\ SearchBing(rp_subject \o description, lists)
    /\ rp_pc' = "searching"
    /\ search_attempts' = 0
    /\ backup_index' = 0
    /\ UNCHANGED <<rp_article, rp_subject, image_descriptions, modified_article,
                   marker_index, resolved, substitutions, searches, validVars>>

\* lines 260-266: an exception while the placeholder is worked on, taken
\* where get_images is entered (its print, image_search line 218)
MarkerRaises ==
    /\ rp_pc = "marker"
    /\ ReplaceWith("comment", None, error_comment(description))
    /\ UNCHANGED <<validVars, imagesVars>>

\* lines 156-171, and the next backup query of lines 210-222
Retry(lists) ==
    /\ gi_pc = "returned"
    /\ gi_ret = <<>>
    /\ IF rp_pc = "searching"
       THEN /\ search_attempts < 3
            /\ search_attempts' = search_attempts + 1
            /\ SearchBing(retry_query(search_attempts + 1), lists)
            /\ UNCHANGED backup_index
       ELSE /\ rp_pc = "backup"
            /\ backup_index < Len(backup_queries)
            /\ backup_index' = backup_index + 1
            /\ SearchBing(backup_queries[backup_index + 1], lists)
            /\ UNCHANGED search_attempts
    /\ UNCHANGED <<rp_pc, rp_article, rp_subject, image_descriptions,
                   modified_article, marker_index, resolved, substitutions,
                   searches, validVars>>

\* the first image of images whose URL is_valid_image_url accepts from its
\* cache, None when there is none (lines 191-198, 213-219)
RECURSIVE FirstValid(_)
FirstValid(images) ==
    IF images = <<>> THEN None
    ELSE IF Cached(Head(images).url) /\ cache[Head(images).url]
         THEN Head(images).url
         ELSE FirstValid(Tail(images))

\* lines 173-239: images were found
UseImage(lists) ==
    /\ rp_pc \in {"searching", "backup"}
    /\ gi_pc = "returned"
    /\ gi_ret # <<>>
    /\ \E check \in Checks(gi_ret[1].url) :
          /\ Validate(gi_ret[1].url, check)
          /\ IF IsValid(gi_ret[1].url, check)
             THEN \* lines 181-187
                  /\ ReplaceWith("image", gi_ret[1].url,
                                 img_tag(description, gi_ret[1].url))
                  /\ UNCHANGED imagesVars
             ELSE IF FirstValid(Tail(gi_ret)) # None
             THEN \* lines 190-198
                  /\ ReplaceWith("image", FirstValid(Tail(gi_ret)),
                                 img_tag(description, FirstValid(Tail(gi_ret))))
                  /\ UNCHANGED imagesVars
             ELSE IF backup_index < Len(backup_queries)
             THEN \* lines 201-222
                  /\ rp_pc' = "backup"
                  /\ backup_index' = backup_index + 1
                  /\ SearchBing(backup_queries[backup_index + 1], lists)
                  /\ UNCHANGED <<rp_article, rp_subject, image_descriptions,
                                 modified_article, marker_index, search_attempts,
                                 resolved, substitutions, searches>>
             ELSE \* lines 224-239
                  /\ ReplaceWith("stock", reliable_stock_images[stock_index + 1],
                                 img_tag(description,
                                         reliable_stock_images[stock_index + 1]))
                  /\ UNCHANGED imagesVars

\* lines 240-258, and 224-239 after the last backup query
UseStock ==
    /\ gi_pc = "returned"
    /\ gi_ret = <<>>
    /\ \/ rp_pc = "searching" /\ search_attempts = 3
       \/ rp_pc = "backup" /\ backup_index = Len(backup_queries)
    /\ ReplaceWith("stock", reliable_stock_images[stock_index + 1],
                   img_tag(description, reliable_stock_images[stock_index + 1]))
    /\ UNCHANGED <<validVars, imagesVars>>

\* what a step of get_images leaves alone when replace_image_placeholders
\* runs it
aroundSearch == <<placeholderVars, outsidePlaceholder>>

PlaceholderNext ==
    \/ /\ substitutions < MaxSubstitutions
       /\ substitutions' = substitutions + 1
       /\ \E article \in Articles : \E subj \in PlaceholderSubjects :
             replace_image_placeholders(article, subj)
       /\ UNCHANGED outsidePlaceholder
    \/ FirstSearch(FewImageLists) /\ UNCHANGED outsidePlaceholder
    \/ MarkerRaises /\ UNCHANGED outsidePlaceholder
    \/ Retry(FewImageLists) /\ UNCHANGED outsidePlaceholder
    \/ UseImage(FewImageLists) /\ UNCHANGED outsidePlaceholder
    \/ UseStock /\ UNCHANGED outsidePlaceholder
    \/ Filter /\ UNCHANGED aroundSearch
    \/ ReturnBing /\ UNCHANGED aroundSearch
    \/ SearchYahoo(FewImageLists) /\ UNCHANGED aroundSearch
    \/ SearchAlternative(FewImageLists) /\ UNCHANGED aroundSearch
    \/ ReturnAll /\ UNCHANGED aroundSearch

(***************************************************************************)
(* seo_utils: generate_tags_from_title                                     *)
(*                                                                         *)
(* A title or a subject is a sequence of tokens: words, the separators     *)
(* the function replaces by a space, and white space.  A word is a string, *)
(* so that len(word) and the substring test of line 68 are computed on     *)
(* its characters.                                                         *)
(***************************************************************************)

Whitespace == {" ", NL}

\* the characters generate_tags_from_title and slugify take for separators
Punctuation == {":", "-", ",", "."}

\* lines 16-21
stop_words ==
    {"yang", "untuk", "dengan", "adalah", "dari", "cara", "tips", "trik",
     "dan", "atau", "jika", "maka", "namun", "tetapi", "juga", "oleh",
     "the", "and", "that", "this", "with", "for", "from", "how", "what",
     "when", "why", "where", "who", "will", "your", "their", "our", "its"}

\* the tokens of the titles explored
TitleTokens == {"Pet", "care", "careful", "the", ":"}

TagTitles == UNION { [1..n -> TitleTokens] : n \in 0..MaxTitleLen }

\* the subjects explored: no character, white space only, a stop word,
\* two words of the titles, three long words
TagSubjects ==
    {<<>>, <<" ">>, <<"the">>, <<"Pet", "care">>,
     <<"python", "guide", "scraping">>}

\* str.split()
split(text) ==
    LET IsWord(w) == w \notin Whitespace
    IN SelectSeq(text, IsWord)

\* str.lower() on a text
lower(text) == [i \in 1..Len(text) |-> Lower(text[i])]

\* lines 24, 28: title_parts
title_parts(title) ==
    LET IsWord(w) == w \notin Punctuation
    IN split(lower(SelectSeq(title, IsWord)))

\* ' '.join(words), of one word or more
RECURSIVE join(_)
join(words) ==
    IF Len(words) = 1 THEN words[1]
    ELSE words[1] \o " " \o join(Tail(words))

\* lines 32-35, 38-41: the phrases of n consecutive words without a stop
\* word, from the i-th word on
RECURSIVE phrases_from(_, _, _)
phrases_from(parts, n, i) ==
    IF i + n - 1 > Len(parts) THEN <<>>
    ELSE (IF \A j \in i..(i + n - 1) : parts[j] \notin stop_words
          THEN <<join(SubSeq(parts, i, i + n - 1))>>
          ELSE <<>>) \o phrases_from(parts, n, i + 1)

phrases(parts, n) == phrases_from(parts, n, 1)

\* lines 44-45, 48-49
important_words(parts) ==
    LET Important(w) == Len(w) > 3 /\ w \notin stop_words
    IN SelectSeq(parts, Important)

\* lines 67-70, from the k-th word on: a word is appended when no phrase
\* contains it and single_words does not hold it yet, that is, when it did
\* not occur earlier in words
RECURSIVE single_words_from(_, _, _)
single_words_from(words, all_tags, k) ==
    IF k > Len(words) THEN <<>>
    ELSE LET already_included ==
                 \E t \in 1..Len(all_tags) : Contains(all_tags[t], words[k])
             seen == \E j \in 1..(k - 1) : words[j] = words[k]
         IN (IF already_included \/ seen THEN <<>> ELSE <<words[k]>>)
            \o single_words_from(words, all_tags, k + 1)

single_words(words, all_tags) == single_words_from(words, all_tags, 1)

\* lines 24-75; raises is the IndexError of subject.split()[0]
generate_tags_from_title(title, subject) ==
    LET parts == title_parts(title)
        title_words == important_words(parts)
        subject_words == important_words(split(lower(subject)))
        phrase_tags == Slice(phrases(parts, 3), 2) \o Slice(phrases(parts, 2), 2)
        remaining_slots == 5 - Len(phrase_tags)
        all_tags ==
            IF remaining_slots > 0
            THEN phrase_tags
                 \o Slice(single_words(title_words \o subject_words, phrase_tags),
                          remaining_slots)
            ELSE phrase_tags
    IN IF all_tags # <<>> THEN [raises |-> FALSE, tags |-> Slice(all_tags, 5)]
       ELSE IF split(subject) = <<>> THEN [raises |-> TRUE, tags |-> <<>>]
       ELSE [raises |-> FALSE, tags |-> <<split(subject)[1]>>]

NoTagsCall == [called |-> FALSE, title |-> <<>>, subject |-> <<>>,
               raises |-> FALSE, tags |-> <<>>]

\* no call is examined
TagsIdle == tags_call = NoTagsCall

\* the arguments of the call to come
TagsInit ==
    \E title \in TagTitles : \E subject \in TagSubjects :
        tags_call = [NoTagsCall EXCEPT !.title = title, !.subject = subject]

\* the call of generate_tags_from_title
TagsCall ==
    /\ ~tags_call.called
    /\ tags_call' =
           [called |-> TRUE, title |-> tags_call.title, subject |-> tags_call.subject,
            raises |-> generate_tags_from_title(tags_call.title,
                                                tags_call.subject).raises,
            tags |-> generate_tags_from_title(tags_call.title,
                                              tags_call.subject).tags]
    /\ UNCHANGED <<clientVars, storeVars, validVars, imagesVars,
                   placeholderVars, pipelineVars, other_store>>

TagsNext == TagsCall

(***************************************************************************)
(* article_generator: generate_title, generate_article,                    *)
(* generate_frontmatter, generate_seo_article                              *)
(***************************************************************************)

NoKeyFile == [exists |-> FALSE, keys |-> <<>>]

\* apikey.txt: missing, without a key, with two keys
KeyFiles ==
    {NoKeyFile} \cup { [exists |-> TRUE, keys |-> k] : k \in {<<>>, <<1, 2>>} }

\* Subjects of the requests, as their words
RequestSubjects == {<<"pet", "care">>, <<>>}

QUOTE == "\""

\* What the text endpoint writes when asked for a title; <<>> is an empty text
TitleTexts ==
    {<<>>,
     <<"Pet", "Care">>,
     <<NL, QUOTE, "Pet", ":", "Care", QUOTE, NL, "more">>}

\* What the text endpoint writes when asked for an article
ArticleTexts ==
    {<<>>,
     <<"text">>,
     <<"intro", NL, NL, OPEN, "cat", CLOSE, NL, NL, "text">>}

\* the backends' answers explored with generate_seo_article
RequestImageLists ==
    {<<>>,
     <<"https://host/b.jpg", "https://cdn.pixabay.com/a.jpg",
       "https://cdn.pixabay.com/a.jpg">>}

\* what detect_language comes to: a language name, or an exception of
\* detect; the language goes into the prompts only
Detections == {"English", "raises"}

\* the default model_title and model_article
DefaultModel == "gemini-1.5-flash"

\* str.strip() of a text whose only white space is the newline
RECURSIVE Strip(_)
Strip(text) ==
    IF text = <<>> THEN <<>>
    ELSE IF Head(text) = NL THEN Strip(Tail(text))
    ELSE IF text[Len(text)] = NL THEN Strip(SubSeq(text, 1, Len(text) - 1))
    ELSE text

\* str.split('\n')[0]
FirstLine(text) ==
    LET nls == { i \in 1..Len(text) : text[i] = NL }
    IN IF nls = {} THEN text
       ELSE SubSeq(text, 1, (CHOOSE i \in nls : \A j \in nls : i <= j) - 1)

\* lines 46-52 of generate_title
clean_title(text) ==
    LET NotQuote(w) == w # QUOTE
    IN FirstLine(SelectSeq(Strip(text), NotQuote))

\* f"Article About {subject}"
fallback_title(subj) == <<"Article", "About">> \o subj

\* slugify(title): lower case, separators dropped, words joined by "-"
slugify(title) ==
    LET IsWord(w) == w \notin Punctuation
    IN [i \in 1..Len(SelectSeq(title, IsWord)) |-> Lower(SelectSeq(title, IsWord)[i])]

\* f"/{slugify(title)}"
permalink_of(title) == <<"/">> \o slugify(title)

\* the words of the requests with more than 3 characters
LongWords == {"article", "about", "care", "more", "text"}

\* generate_tags_from_title finds no tag in the title and the subject of a
\* request, whose words are those of RequestSubjects and TitleTexts
NoTags(title, subj) ==
    LET parts == title_parts(title)
        Tag(w) == w \in LongWords /\ w \notin stop_words
    IN /\ \A i \in 1..(Len(parts) - 1) :
             parts[i] \in stop_words \/ parts[i + 1] \in stop_words
       /\ \A i \in 1..Len(parts) : ~Tag(parts[i])
       /\ \A i \in 1..Len(subj) : ~Tag(Lower(subj[i]))

\* generate_frontmatter raises: seo_utils line 75 indexes subject.split()[0]
FrontmatterRaises(title, subj) == NoTags(title, subj) /\ subj = <<>>

\* lines 363-366: <!--more--> after the first paragraph
more(text) ==
    LET breaks == { i \in 1..(Len(text) - 1) : text[i] = NL /\ text[i + 1] = NL }
        mark == <<NL, NL, "<!--more-->", NL, NL>>
    IN IF breaks = {} THEN text \o mark
       ELSE LET b == CHOOSE i \in breaks : \A j \in breaks : i <= j
            IN SubSeq(text, 1, b - 1) \o mark \o SubSeq(text, b, Len(text))

PipelineIdle ==
    /\ gs_pc = "Idle"
    /\ gs_subject = <<>>
    /\ language = None
    /\ gs_title = <<>>
    /\ gs_permalink = <<>>
    /\ related_articles = <<>>
    /\ gs_article = <<>>
    /\ outcome = <<>>
    /\ requests = 0
    /\ prev_key_index = 0

\* no request is made
NoPipeline == PipelineIdle /\ apikey_file = NoKeyFile

PipelineInit == PipelineIdle /\ apikey_file \in KeyFiles

\* a GeminiClient as constructed from keys, or discarded when keys is <<>>
NewClient(keys) ==
    /\ api_keys' = keys
    /\ current_key_index' = 0
    /\ current_model_index' = 0
    /\ pc' = "idle"
    /\ model_arg' = None
    /\ model' = None
    /\ max_retries' = 0
    /\ retry_count' = 0
    /\ result' = None
    /\ response' = None
    /\ request' = <<>>
    /\ attempts' = 0
    /\ start_key' = 0
    /\ start_model' = 0
    /\ key_rotations' = 0
    /\ model_rotations' = 0
    /\ calls' = 0

\* get_gemini_client() raises: apikey.txt is missing or holds no key
NoCredentials == ~apikey_file.exists \/ apikey_file.keys = <<>>

Propagate(reason) ==
    /\ gs_pc' = "Raised"
    /\ outcome' = <<>>

\* lines 386-387: whatever is raised inside the request is returned
Fail(reason) ==
    /\ gs_pc' = "Failed"
    /\ outcome' = [error |-> reason]

\* lines 337-343: a request begins
generate_seo_article(subj) ==
    /\ gs_pc \in {"Idle", "Done", "Failed"}
    /\ requests < MaxRequests
    /\ requests' = requests + 1
    /\ gs_pc' = "DetectingLanguage"
    /\ gs_subject' = subj
    /\ language' = None
    /\ gs_title' = <<>>
    /\ gs_permalink' = <<>>
    /\ related_articles' = <<>>
    /\ gs_article' = <<>>
    /\ outcome' = <<>>
    /\ UNCHANGED <<apikey_file, prev_key_index, clientVars, storeVars, outsideRequest>>

\* line 345
DetectLanguage ==
    /\ gs_pc = "DetectingLanguage"
    /\ \E d \in Detections : language' = IF d = "raises" THEN "English" ELSE d
    /\ gs_pc' = "GeneratingTitle"
    /\ UNCHANGED <<apikey_file, gs_subject, gs_title, gs_permalink, related_articles,
                   gs_article, outcome, requests, prev_key_index>>
    /\ UNCHANGED <<clientVars, storeVars, outsideRequest>>

\* get_gemini_client() of generate_title (line 38) and of generate_article
\* returns a client
GetClient ==
    /\ gs_pc \in {"GeneratingTitle", "GeneratingBody"}
    /\ api_keys = <<>>
    /\ ~NoCredentials
    /\ NewClient(apikey_file.keys)
    /\ UNCHANGED <<pipelineVars, storeVars, outsideRequest>>

\* client.generate_content(prompt, model) of generate_title (line 41) and of
\* generate_article
CallClient ==
    /\ gs_pc \in {"GeneratingTitle", "GeneratingBody"}
    /\ api_keys # <<>>
    /\ pc = "idle"
    /\ generate_content(DefaultModel, 3)

TitleAbort(subj) ==
    /\ Fail("Error generating title")
    /\ UNCHANGED <<gs_title, gs_permalink>>

TitleFallbackToBody(subj) ==
    /\ gs_title' = fallback_title(subj)
    /\ gs_permalink' = permalink_of(fallback_title(subj))
    /\ gs_pc' = "GeneratingBody"
    /\ UNCHANGED outcome

\* lines 43-44, 54-57 of generate_title, then line 351
TitleFallback(subj) ==
    /\ gs_title' = fallback_title(subj)
    /\ gs_permalink' = permalink_of(fallback_title(subj))
    /\ gs_pc' = "ComputingRelatedLinks"
    /\ UNCHANGED outcome

\* generate_title ends without a client (lines 38, 54-57)
TitleWithoutClient ==
    /\ gs_pc = "GeneratingTitle"
    /\ api_keys = <<>>
    /\ NoCredentials
    /\ TitleFallback(gs_subject)
    /\ UNCHANGED <<apikey_file, gs_subject, language, related_articles, gs_article,
                   requests, prev_key_index>>
    /\ UNCHANGED <<clientVars, storeVars, outsideRequest>>

\* generate_title ends after generate_content (lines 43-57), then line 351
TitleReturned ==
    /\ gs_pc = "GeneratingTitle"
    /\ pc \in {"returned", "raised"}
    /\ \E text \in TitleTexts :
          IF pc = "returned" /\ result = "text" /\ text # <<>>
          THEN /\ gs_title' = clean_title(text)
               /\ gs_permalink' = permalink_of(clean_title(text))
               /\ gs_pc' = "ComputingRelatedLinks"
               /\ UNCHANGED outcome
          ELSE TitleFallback(gs_subject)
    /\ prev_key_index' = current_key_index
    /\ NewClient(<<>>)
    /\ UNCHANGED <<apikey_file, gs_subject, language, related_articles, gs_article,
                   requests>>
    /\ UNCHANGED <<storeVars, outsideRequest>>

\* line 354
ComputeRelated ==
    /\ gs_pc = "ComputingRelatedLinks"
    /\ related_articles' = get_related_articles(gs_subject, gs_permalink, 3)
    /\ op' = Operation("related", gs_permalink, gs_subject, <<>>, 3)
    /\ ret' = get_related_articles(gs_subject, gs_permalink, 3)
    /\ gs_pc' = "GeneratingBody"
    /\ UNCHANGED <<apikey_file, gs_subject, language, gs_title, gs_permalink,
                   gs_article, outcome, requests, prev_key_index>>
    /\ UNCHANGED <<articles, file, clock, clientVars, outsideRequest>>

BodyOmitted ==
    /\ gs_pc = "GeneratingBody"
    /\ api_keys = <<>>
    /\ NoCredentials
    /\ gs_pc' = "ComposingDocument"
    /\ UNCHANGED <<apikey_file, gs_subject, language, gs_title, gs_permalink,
                   related_articles, gs_article, outcome, requests, prev_key_index>>
    /\ UNCHANGED <<clientVars, storeVars, outsideRequest>>

\* generate_article ends without a client and raises (line 357)
BodyWithoutClient ==
    /\ gs_pc = "GeneratingBody"
    /\ api_keys = <<>>
    /\ NoCredentials
    /\ Fail("Error initializing Gemini client")
    /\ UNCHANGED <<apikey_file, gs_subject, language, gs_title, gs_permalink,
                   related_articles, gs_article, requests, prev_key_index>>
    /\ UNCHANGED <<clientVars, storeVars, outsideRequest>>

\* generate_article ends after generate_content; with a text, line 360
\* calls replace_image_placeholders
BodyReturned ==
    /\ gs_pc = "GeneratingBody"
    /\ pc \in {"returned", "raised"}
    /\ \E text \in ArticleTexts :
          IF pc = "returned" /\ result = "text" /\ text # <<>>
          THEN /\ gs_article' = text
               /\ gs_pc' = "ResolvingImages"
               /\ replace_image_placeholders(text, gs_subject)
               /\ UNCHANGED <<outcome, substitutions, tags_call, other_store>>
          ELSE /\ Fail("Failed to generate article content")
               /\ UNCHANGED <<gs_article, outsideRequest>>
    /\ prev_key_index' = 0
    /\ NewClient(<<>>)
    /\ UNCHANGED <<apikey_file, gs_subject, language, gs_title, gs_permalink,
                   related_articles, requests>>
    /\ UNCHANGED storeVars

\* the locals of replace_image_placeholders and of get_images after the return
LocalsGone ==
    /\ rp_pc' = "idle"
    /\ rp_article' = <<>>
    /\ rp_subject' = <<>>
    /\ image_descriptions' = <<>>
    /\ modified_article' = <<>>
    /\ marker_index' = 0
    /\ search_attempts' = 0
    /\ backup_index' = 0
    /\ resolved' = <<>>
    /\ gi_pc' = "idle"
    /\ query' = <<>>
    /\ candidates' = <<>>
    /\ all_valid_images' = <<>>
    /\ alt_index' = 0
    /\ fetches' = <<>>
    /\ gi_ret' = <<>>
    /\ UNCHANGED <<substitutions, searches>>

\* line 360 returns; the locals of replace_image_placeholders and of
\* get_images are gone
ImagesResolved ==
    /\ gs_pc = "ResolvingImages"
    /\ rp_pc = "returned"
    /\ gs_article' = modified_article
    /\ gs_pc' = "ComposingDocument"
    /\ LocalsGone
    /\ UNCHANGED <<apikey_file, gs_subject, language, gs_title, gs_permalink,
                   related_articles, outcome, requests, prev_key_index>>
    /\ UNCHANGED <<clientVars, storeVars, validVars, tags_call, other_store>>

\* lines 363-372
ComposeDocument ==
    /\ gs_pc = "ComposingDocument"
    /\ IF FrontmatterRaises(gs_title, gs_subject)
       THEN Fail("list index out of range") /\ UNCHANGED gs_article
       ELSE /\ gs_article' = more(gs_article)
            /\ gs_pc' = "Recording"
            /\ UNCHANGED outcome
    /\ UNCHANGED <<apikey_file, gs_subject, language, gs_title, gs_permalink,
                   related_articles, requests, prev_key_index>>
    /\ UNCHANGED <<clientVars, storeVars, outsideRequest>>

unsafe_text(text) == <<QUOTE>> \o text \o <<QUOTE>>

\* lines 320, 325, 330: text.replace("'", "").replace('"', "").strip()
safe_text(text) ==
    LET NotQuote(w) == w \notin {"'", QUOTE}
    IN Strip(SelectSeq(text, NotQuote))

\* lines 281-285 without a category argument
main_category(subj) == IF split(subj) # <<>> THEN <<split(subj)[1]>> ELSE subj

\* lines 270-335: the metadata block, in its fields title, permalink and
\* categories
generate_frontmatter(title, subj, permalink) ==
    [title |-> title,
     permalink |-> safe_text(permalink),
     categories |-> safe_text(main_category(subj))]

\* lines 369-372: frontmatter + article_with_images
markdown_content ==
    [frontmatter |-> generate_frontmatter(gs_title, gs_subject, gs_permalink),
     article |-> gs_article]

\* lines 377-384
GeneratedArticle ==
    [title |-> gs_title, article |-> gs_article, markdown |-> markdown_content,
     permalink |-> gs_permalink, subject |-> gs_subject, category |-> None]

RecordedOrFail(added) ==
    IF added THEN gs_pc' = "Done" /\ outcome' = GeneratedArticle
    ELSE Fail("Article already exists")

\* line 375: what add_article returns is not looked at
Recorded(added) ==
    /\ gs_pc' = "Done"
    /\ outcome' = GeneratedArticle

\* lines 375-384
Record ==
    /\ gs_pc = "Recording"
    /\ Add(gs_title, gs_subject, gs_permalink)
    /\ Recorded(ret')
    /\ UNCHANGED <<apikey_file, gs_subject, language, gs_title, gs_permalink,
                   related_articles, gs_article, requests, prev_key_index>>
    /\ UNCHANGED <<clientVars, outsideRequest>>

\* line 375: save_articles raises (the file cannot be opened for writing, or
\* the write fails after the file was truncated); the article is already in
\* self.articles
RecordRaises ==
    /\ gs_pc = "Recording"
    /\ ~AlreadyPresent(gs_permalink)
    /\ clock < MaxAdds
    /\ op' = Operation("add", gs_permalink, <<>>, <<>>, 0)
    /\ articles' = Append(articles,
                          [title |-> gs_title, subject |-> gs_subject,
                           permalink |-> gs_permalink, timestamp |-> clock])
    /\ clock' = clock + 1
    /\ file' \in {file, CorruptFile}
    /\ ret' = None
    /\ Fail("cannot write articles.json")
    /\ UNCHANGED <<apikey_file, gs_subject, language, gs_title, gs_permalink,
                   related_articles, gs_article, requests, prev_key_index>>
    /\ UNCHANGED <<clientVars, outsideRequest>>

PipelineNext ==
    \/ \E subj \in RequestSubjects : generate_seo_article(subj)
    \/ DetectLanguage
    \/ GetClient
    \/ CallClient
    \/ ReturnText
    \/ NoCandidates
    \/ RateLimited
    \/ Sleep
    \/ HttpError
    \/ OtherException
    \/ ReturnNone
    \/ TitleWithoutClient
    \/ TitleReturned
    \/ ComputeRelated
    \/ BodyWithoutClient
    \/ BodyReturned
    \/ FirstSearch(RequestImageLists) /\ UNCHANGED outsidePlaceholder
    \/ MarkerRaises /\ UNCHANGED outsidePlaceholder
    \/ Retry(RequestImageLists) /\ UNCHANGED outsidePlaceholder
    \/ UseImage(RequestImageLists) /\ UNCHANGED outsidePlaceholder
    \/ UseStock /\ UNCHANGED outsidePlaceholder
    \/ Filter /\ UNCHANGED aroundSearch
    \/ ReturnBing /\ UNCHANGED aroundSearch
    \/ SearchYahoo(RequestImageLists) /\ UNCHANGED aroundSearch
    \/ SearchAlternative(RequestImageLists) /\ UNCHANGED aroundSearch
    \/ ReturnAll /\ UNCHANGED aroundSearch
    \/ ImagesResolved
    \/ ComposeDocument
    \/ Record
    \/ RecordRaises

(***************************************************************************)
(* article_links: two ArticleLinksManager objects, of two processes, on    *)
(* the same file.  The variables articles, op and ret are those of the     *)
(* first; neither process locks the file.                                  *)
(***************************************************************************)

NoOtherStore == other_store = [loaded |-> FALSE, articles |-> <<>>]

\* ArticleLinksManager.__init__ in the other process
OtherLoad ==
    /\ ~other_store.loaded
    /\ other_store' = [loaded |-> TRUE, articles |-> _load_articles(file)]
    /\ UNCHANGED <<storeVars, clientVars, validVars, imagesVars, placeholderVars,
                   pipelineVars, tags_call>>

OtherAddReloading(title, subject, permalink) ==
    /\ other_store.loaded
    /\ \A i \in 1..Len(_load_articles(file)) :
           _load_articles(file)[i].permalink # permalink
    /\ clock < MaxAdds
    /\ other_store' = [other_store EXCEPT !.articles =
           Append(_load_articles(file),
                  [title |-> title, subject |-> subject,
                   permalink |-> permalink, timestamp |-> clock])]
    /\ clock' = clock + 1
    /\ file' = save_articles(other_store'.articles)
    /\ UNCHANGED <<articles, op, ret>>
    /\ UNCHANGED <<clientVars, validVars, imagesVars, placeholderVars,
                   pipelineVars, tags_call>>

\* add_article in the other process, lines 44-59
OtherAdd(title, subject, permalink) ==
    /\ other_store.loaded
    /\ IF \E i \in 1..Len(other_store.articles) :
              other_store.articles[i].permalink = permalink
       THEN UNCHANGED <<other_store, file, clock>>
       ELSE /\ clock < MaxAdds
            /\ other_store' = [other_store EXCEPT !.articles =
                   Append(@, [title |-> title, subject |-> subject,
                              permalink |-> permalink, timestamp |-> clock])]
            /\ clock' = clock + 1
            /\ file' = save_articles(other_store'.articles)
    /\ UNCHANGED <<articles, op, ret>>
    /\ UNCHANGED <<clientVars, validVars, imagesVars, placeholderVars,
                   pipelineVars, tags_call>>

\* two processes adding to the same file
SharedNext ==
    \/ \E p \in Permalinks : add_article("First", <<"python", "web", "scraping">>, p)
    \/ OtherLoad
    \/ \E p \in Permalinks : OtherAdd("Second", <<"Python", "tutorials">>, p)

(***************************************************************************)
(* Specifications                                                          *)
(***************************************************************************)

\* a client alone
ClientAlone ==
    ClientInit /\ StoreIdle /\ ValidInit /\ ImagesInit /\ PlaceholderInit /\ NoPipeline
    /\ TagsIdle
    /\ NoOtherStore

ClientSpec == ClientAlone /\ [][ClientNext]_vars

\* a store alone
StoreAlone ==
    StoreInit /\ ClientIdle /\ ValidInit /\ ImagesInit /\ PlaceholderInit /\ NoPipeline
    /\ TagsIdle
    /\ NoOtherStore

StoreSpec == StoreAlone /\ [][StoreNext]_vars

RelatedSpec == StoreAlone /\ [][RelatedNext]_vars

\* a store constructed on a file that cannot be read or parsed
UnreadableAlone == StoreAlone /\ file = CorruptFile

UnreadableSpec == UnreadableAlone /\ [][StoreNext]_vars

\* URL validation alone
ValidAlone ==
    ValidInit /\ ClientIdle /\ StoreIdle /\ ImagesInit /\ PlaceholderInit /\ NoPipeline
    /\ TagsIdle
    /\ NoOtherStore

ValidSpec == ValidAlone /\ [][ValidNext]_vars

\* image search alone
ImagesAlone ==
    ImagesInit /\ ValidInit /\ ClientIdle /\ StoreIdle /\ PlaceholderInit /\ NoPipeline
    /\ TagsIdle
    /\ NoOtherStore

ImagesSpec == ImagesAlone /\ [][ImagesNext]_vars

\* placeholder substitution alone
PlaceholderAlone ==
    PlaceholderInit /\ ImagesInit /\ ValidInit /\ ClientIdle /\ StoreIdle
    /\ NoPipeline /\ TagsIdle
    /\ NoOtherStore

PlaceholderSpec == PlaceholderAlone /\ [][PlaceholderNext]_vars

\* the process that serves generation requests: no client yet, the module's
\* article_links_manager loaded from no file
PipelineAlone ==
    PipelineInit /\ ClientIdle /\ StoreIdle /\ ValidInit /\ ImagesInit
    /\ PlaceholderInit /\ TagsIdle
    /\ NoOtherStore

PipelineSpec == PipelineAlone /\ [][PipelineNext]_vars

\* two stores on one file: the first constructed, the other not yet
SharedAlone ==
    StoreInit /\ ClientIdle /\ ValidInit /\ ImagesInit /\ PlaceholderInit /\ NoPipeline
    /\ TagsIdle /\ NoOtherStore

SharedSpec == SharedAlone /\ [][SharedNext]_vars

\* tag extraction alone
TagsAlone ==
    TagsInit /\ ClientIdle /\ StoreIdle /\ ValidInit /\ ImagesInit
    /\ PlaceholderInit /\ NoPipeline
    /\ NoOtherStore

TagsSpec == TagsAlone /\ [][TagsNext]_vars

(***************************************************************************)
(* Claims about GeminiClient, checked under ClientSpec                     *)
(***************************************************************************)

\* C1: with a non-empty pool of N keys, after k failed attempts of a call the
\* credential cursor is at (start + k) mod N, so N failures bring it back to
\* where the call started, having visited every position.
C1_CursorCycles ==
    (pc \in {"loop", "returned"} /\ api_keys # <<>>) =>
        current_key_index = (start_key + retry_count) % Len(api_keys)

\* a call that started at cursor 1 of a pool of 3 has failed 3 times
C1_Witness ==
    /\ pc = "loop"
    /\ Len(api_keys) = 3
    /\ start_key = 1
    /\ retry_count = 3
    /\ current_key_index = 1

\* C2: the credential cursor and the model cursor have been advanced the
\* same number of times, in every state between attempts, and the model
\* cursor, like the credential cursor, once for each failed attempt.
C2_RotateTogether ==
    /\ key_rotations = model_rotations
    /\ pc \in {"loop", "returned"} =>
           current_model_index = (start_model + retry_count) % Len(models)

\* every failure path has been taken at least once in some behaviour; here
\* after an HTTP error that followed earlier failures
C2_Witness ==
    /\ response \in {"http_error", "http_429_reason"}
    /\ key_rotations >= 3
    /\ key_rotations = model_rotations

\* C3: with a non-empty pool and max_retries >= 0, a call makes at most
\* max_retries requests, never raises, and when every attempt failed it
\* returns None after exactly max_retries requests.
C3_ExhaustedReturnsNone ==
    (api_keys # <<>> /\ max_retries >= 0) =>
        /\ attempts <= max_retries
        /\ pc # "raised"
        /\ (pc = "returned" /\ response # "text") =>
               (result = None /\ attempts = max_retries)

\* three failed attempts, then None
C3_Witness ==
    /\ api_keys # <<>>
    /\ pc = "returned"
    /\ max_retries = 3
    /\ attempts = 3
    /\ response # "text"
    /\ result = None

\* C4 as stated: an attempt that receives a response with at least one
\* candidate returns the text at once and leaves both cursors alone.
C4_AnyCandidateReturns ==
    [][(attempts' = attempts + 1 /\ response' \in {"text", "bad_candidate"}) =>
           /\ pc' = "returned"
           /\ result' = "text"
           /\ current_key_index' = current_key_index
           /\ current_model_index' = current_model_index]_vars

\* C4 amended: an attempt that receives a response whose first candidate
\* carries text returns that text at once, leaves both cursors alone, and
\* no further request is made in that call.
C4_TextReturnsAtOnce ==
    [][/\ (attempts' = attempts + 1 /\ response' = "text") =>
              /\ pc' = "returned"
              /\ result' = "text"
              /\ current_key_index' = current_key_index
              /\ current_model_index' = current_model_index
              /\ key_rotations' = key_rotations
              /\ model_rotations' = model_rotations
       /\ (pc = "returned" /\ calls' = calls) => attempts' = attempts]_vars

\* a call returned text on its third attempt
C4_Witness ==
    /\ pc = "returned"
    /\ result = "text"
    /\ response = "text"
    /\ attempts = 3
    /\ retry_count = 2

\* C5 as stated: with an empty pool every call ends with the configuration
\* error and makes no request.
C5_EmptyPoolRaises ==
    (api_keys = <<>> /\ pc \in {"returned", "raised"}) =>
        /\ pc = "raised"
        /\ result = "ValueError: No API keys available"
        /\ attempts = 0

(***************************************************************************)
(* Claims about ArticleLinksManager, checked under StoreSpec and, for      *)
(* get_related_articles, under RelatedSpec                                 *)
(***************************************************************************)

\* the number of records with this permalink
Count(as, permalink) ==
    Cardinality({ i \in 1..Len(as) : as[i].permalink = permalink })

\* C6: an add whose permalink is already stored returns false and changes
\* neither the collection nor the file, and after any add exactly one record
\* carries the added permalink.
C6_AddIdempotent ==
    [][op'.name = "add" =>
          /\ Count(articles', op'.permalink) = 1
          /\ Count(articles, op'.permalink) > 0 =>
                 (ret' = FALSE /\ articles' = articles /\ file' = file)]_vars

\* a second add of a stored permalink has returned false
C6_Witness ==
    /\ op.name = "add"
    /\ ret = FALSE
    /\ Count(articles, op.permalink) = 1
    /\ Len(articles) >= 2

\* C7: no two records share a permalink.
C7_UniquePermalinks ==
    \A i, j \in 1..Len(articles) :
        articles[i].permalink = articles[j].permalink => i = j

\* three records, after an update that carried a permalink key
C7_Witness ==
    /\ Len(articles) = 3
    /\ op.name = "update"
    /\ ret = TRUE
    /\ "permalink" \in DOMAIN op.data

C10_UpdateFrame ==
    [][op'.name = "update" =>
          /\ Len(articles') = Len(articles)
          /\ \A i \in 1..Len(articles) :
                 /\ articles'[i].permalink = articles[i].permalink
                 /\ articles'[i].timestamp = articles[i].timestamp
                 /\ articles[i].permalink # op'.permalink =>
                        articles'[i] = articles[i]
                 /\ \A k \in {"title", "subject"} \ DOMAIN op'.data :
                        articles'[i][k] = articles[i][k]]_vars

\* an update carrying permalink and timestamp keys has been applied to the
\* second of three records
C10_Witness ==
    /\ op.name = "update"
    /\ ret = TRUE
    /\ {"permalink", "timestamp"} \subseteq DOMAIN op.data
    /\ Len(articles) = 3
    /\ articles[2].permalink = op.permalink
    /\ articles[2].permalink # op.data.permalink

\* the stored record a result entry stands for
Stored(permalink) ==
    articles[CHOOSE i \in 1..Len(articles) : articles[i].permalink = permalink]

\* the word overlap of the query subject with the stored record of an entry
OverlapOfEntry(entry) ==
    Cardinality(Words(op.subject) \cap Words(Stored(entry.permalink).subject))

\* what C8 says of a result besides its length
RelatedResultSound ==
    /\ \A i \in 1..Len(ret) :
           /\ Count(articles, ret[i].permalink) = 1
           /\ ret[i].permalink # op.permalink
           /\ OverlapOfEntry(ret[i]) > 0
    /\ \A i, j \in 1..Len(ret) :
           i < j => OverlapOfEntry(ret[i]) >= OverlapOfEntry(ret[j])

\* C8 as stated: for every input the result holds no record with the
\* excluded permalink, is no longer than max, is ordered by non-increasing
\* overlap, and holds no record of overlap 0.
C8_RelatedAnyMax ==
    op.name = "related" => (RelatedResultSound /\ Len(ret) <= op.max_links)

\* C8 amended: the same, the length bound for max >= 0 only.
C8_RelatedResult ==
    op.name = "related" =>
        /\ RelatedResultSound
        /\ op.max_links >= 0 => Len(ret) <= op.max_links

\* a query cut to two of three matching records, with differing overlaps,
\* on a store that also holds the excluded record
C8_Witness ==
    /\ op.name = "related"
    /\ op.max_links = 2
    /\ Len(ret) = 2
    /\ OverlapOfEntry(ret[1]) > OverlapOfEntry(ret[2])
    /\ Count(articles, op.permalink) = 1
    /\ Len(articles) = 3

C12_Memoized ==
    [][/\ \A u \in DOMAIN cache : u \in DOMAIN cache' /\ cache'[u] = cache[u]
       /\ valid_call'.url \in DOMAIN cache'
       /\ cache'[valid_call'.url] = valid_call'.ret
       /\ valid_call'.url \in DOMAIN cache =>
              /\ valid_call'.ret = cache[valid_call'.url]
              /\ valid_call'.head = "none" /\ valid_call'.get = "none"
              /\ checks_made' = checks_made
       /\ \A u \in URLs : checks_made'[u] <= 1]_vars

\* a URL accepted by its one network check is validated again, from the cache
C12_Witness ==
    /\ valid_call.url = "https://host/a.jpg"
    /\ valid_call.head = "none"
    /\ valid_call.ret = TRUE
    /\ checks_made["https://host/a.jpg"] = 1
    /\ DOMAIN cache = URLs \ StockURLs

C14_ReturnedAreValid ==
    \A i \in 1..Len(gi_ret) :
        gi_ret[i].url \in DOMAIN cache /\ cache[gi_ret[i].url] = TRUE

\* images of both backends come back while a URL of the answers was rejected
C14_Witness ==
    /\ gi_pc = "returned"
    /\ \E i, j \in 1..Len(gi_ret) :
          gi_ret[i].source = "Bing" /\ gi_ret[j].source = "Yahoo"
    /\ alt_index = 0
    /\ \E u \in DOMAIN cache : cache[u] = FALSE /\ checks_made[u] = 1

(***************************************************************************)
(* Claims about replace_image_placeholders, checked under PlaceholderSpec  *)
(***************************************************************************)

\* C15: whatever the article and whatever the image backends answer, the
\* text replace_image_placeholders returns has no placeholder left.
C15_NoPlaceholderLeft ==
    rp_pc = "returned" => findall(modified_article) = <<>>

\* the article with its placeholder at position i (0-based, in the order
\* findall meets them) replaced by stock image i mod 5
RECURSIVE StockFrom(_, _, _)
StockFrom(article, p, i) ==
    IF p > Len(article) THEN <<>>
    ELSE IF article[p] = OPEN /\ CloseOf(article, p) # 0
         THEN img_tag(SubSeq(article, p + 1, CloseOf(article, p) - 1),
                      reliable_stock_images[(i % 5) + 1])
              \o StockFrom(article, CloseOf(article, p) + 1, i + 1)
         ELSE <<article[p]>> \o StockFrom(article, p + 1, i)

\* C16: when every query of every placeholder finds nothing, the
\* placeholder at position i of the article is replaced by stock image
\* i mod 5, so that the placeholders at positions 0 and 1 get different
\* images.
C16_StockByPosition ==
    (/\ rp_pc = "returned"
     /\ resolved # <<>>
     /\ \A i \in 1..Len(resolved) : resolved[i].kind = "stock")
    => modified_article = StockFrom(rp_article, 1, 0)

(***************************************************************************)
(* Claims about generate_seo_article, checked under PipelineSpec           *)
(***************************************************************************)

Running == gs_pc \notin {"Idle", "Done", "Failed", "Raised"}

\* How far the running request has come, as a number that every step of the
\* request raises.
\* ... in generate_content
ClientRank ==
    IF api_keys = <<>> THEN 0
    ELSE IF pc = "idle" THEN 1
    ELSE 2 + 3 * retry_count
           + (CASE pc = "loop" -> 0 [] pc = "sleep" -> 1 [] OTHER -> 2)

\* ... in get_images: at most 6 backend queries of at most 5 images
SearchRank ==
    8 * Len(fetches) + (IF gi_pc = "returned" THEN 7 ELSE 6 - Len(candidates))

\* ... in replace_image_placeholders: at most 4 queries and 4 backup queries
\* for each placeholder
PlaceholderRank ==
    CASE rp_pc = "idle" -> 0
      [] rp_pc = "returned" -> 640 * Len(image_descriptions)
      [] rp_pc = "marker" -> 640 * marker_index
      [] rp_pc = "searching" ->
             640 * marker_index + 64 * (1 + search_attempts) + SearchRank
      [] rp_pc = "backup" ->
             640 * marker_index + 64 * (5 + backup_index) + SearchRank

StageRank ==
    CASE gs_pc = "Idle" -> 0
      [] gs_pc = "DetectingLanguage" -> 1
      [] gs_pc = "GeneratingTitle" -> 2
      [] gs_pc = "ComputingRelatedLinks" -> 3
      [] gs_pc = "GeneratingBody" -> 4
      [] gs_pc = "ResolvingImages" -> 5
      [] gs_pc = "ComposingDocument" -> 6
      [] gs_pc = "Recording" -> 7
      [] OTHER -> 8

Rank == 10000 * StageRank + ClientRank + PlaceholderRank

\* C17: whatever the text endpoint, the image backends, the language
\* detector and the storage of the link store do, a request ends, and it
\* ends by returning either the generated article or a dict with the reason
\* of the failure; nothing is raised to the caller.  That it ends: a
\* running request always has a step to take, and each of its steps raises
\* Rank, which is bounded.
C17_AlwaysReturns ==
    /\ [](/\ gs_pc # "Raised"
          /\ gs_pc = "Done" => DOMAIN outcome = DOMAIN GeneratedArticle
          /\ gs_pc = "Failed" => DOMAIN outcome = {"error"}
          /\ Running => ENABLED PipelineNext
          /\ Rank <= 80000)
    /\ [][Running => Rank' > Rank]_vars

\* a request has failed on a write of the link store, and returned the reason
C17_Witness ==
    /\ gs_pc = "Failed"
    /\ op.name = "add"
    /\ DOMAIN outcome = {"error"}
    /\ outcome.error = "cannot write articles.json"

\* the title could not be generated by the step in hand
TitleFailed ==
    \/ api_keys = <<>> /\ NoCredentials
    \/ pc = "raised"
    \/ pc = "returned" /\ result = None

\* C18: when generate_title fails (the client returns None, something is
\* raised, or no key can be loaded) the request goes on to the related
\* articles and then to the article text, with the title "Article About
\* {subject}"; leaving title generation never fails the request.
C18_TitleNeverBlocks ==
    [][/\ (gs_pc = "GeneratingTitle" /\ gs_pc' # "GeneratingTitle") =>
              /\ gs_pc' = "ComputingRelatedLinks"
              /\ TitleFailed => gs_title' = fallback_title(gs_subject)
       /\ (gs_pc = "ComputingRelatedLinks" /\ gs_pc' # "ComputingRelatedLinks") =>
              gs_pc' = "GeneratingBody"]_vars

\* without credentials the request has reached the article text with the
\* fallback title
C18_Witness ==
    /\ gs_pc = "GeneratingBody"
    /\ NoCredentials
    /\ gs_subject = <<"pet", "care">>
    /\ gs_title = <<"Article", "About", "pet", "care">>

\* C19 as stated: a request fails only when the article text could not be
\* generated; a failure of any other step leaves the request successful.
C19_FailsOnlyOnBody ==
    gs_pc = "Failed" =>
        outcome.error \in {"Failed to generate article content",
                           "Error initializing Gemini client"}

\* C20: when the permalink of a request is already in the link store, the
\* request still returns its generated article, add_article returns False,
\* and the store keeps its one record of that permalink, the first
\* request's title and subject, untouched.
C20_DuplicateTolerated ==
    [][(gs_pc = "Recording" /\ AlreadyPresent(gs_permalink)
        /\ gs_pc' # "Recording") =>
           /\ gs_pc' = "Done"
           /\ DOMAIN outcome' = DOMAIN GeneratedArticle
           /\ outcome'.permalink = gs_permalink
           /\ ret' = FALSE
           /\ articles' = articles
           /\ file' = file
           /\ Count(articles', gs_permalink) = 1]_vars

\* the second request came to another title with the permalink of the first
C20_Witness ==
    /\ gs_pc = "Done"
    /\ requests = 2
    /\ op.name = "add"
    /\ ret = FALSE
    /\ Len(articles) = 1
    /\ articles[1].permalink = gs_permalink
    /\ articles[1].title # gs_title
    /\ outcome.title = gs_title

\* C21 as stated: a request changes the link store only in the step that
\* ends it with a generated article: a request that ends in a failure has
\* left the collection and the file as they were, and a request that ends
\* with an article has called add_article once, with the title, subject and
\* permalink it returns.
C21_StoreOnlyOnSuccess ==
    [][/\ (articles' # articles \/ file' # file) => gs_pc' = "Done"
       /\ (gs_pc # "Done" /\ gs_pc' = "Done") =>
              /\ op' = Operation("add", outcome'.permalink, <<>>, <<>>, 0)
              /\ ret' = TRUE =>
                     /\ Len(articles') = Len(articles) + 1
                     /\ articles'[Len(articles')].title = outcome'.title
                     /\ articles'[Len(articles')].subject = outcome'.subject
                     /\ articles'[Len(articles')].permalink = outcome'.permalink
              /\ ret' = FALSE => articles' = articles /\ file' = file]_vars

\* C22: when apikey.txt is missing or holds no key, a request ends in a
\* failure, no request is posted to the text endpoint, no image backend is
\* queried, no URL is validated, and the link store stays as it was.
C22_NoCredentialsNoNetwork ==
    NoCredentials =>
        /\ gs_pc # "Done"
        /\ gs_pc = "Failed" => DOMAIN outcome = {"error"}
        /\ api_keys = <<>> /\ attempts = 0 /\ calls = 0 /\ request = <<>>
        /\ gi_pc = "idle" /\ fetches = <<>> /\ rp_pc = "idle"
        /\ cache = <<>> /\ \A u \in URLs : checks_made[u] = 0
        /\ articles = <<>> /\ file = NoFile /\ clock = 0

\* the second request without credentials has failed at the article text
C22_Witness ==
    /\ NoCredentials
    /\ gs_pc = "Failed"
    /\ requests = 2
    /\ outcome.error = "Error initializing Gemini client"
    /\ gs_title = fallback_title(gs_subject)

\* C24: the permalink of a request is "/" followed by the slug of the title
\* the request uses, the generated one or the fallback "Article About
\* {subject}"; that permalink is the one get_related_articles is asked to
\* leave out, the one of the metadata block of the document, the one of the
\* returned article and the one add_article records.
C24_OnePermalink ==
    /\ gs_pc \in {"ComputingRelatedLinks", "GeneratingBody", "ResolvingImages",
                  "ComposingDocument", "Recording", "Done"} =>
           /\ gs_permalink = <<"/">> \o slugify(gs_title)
           /\ gs_title # fallback_title(gs_subject) =>
                  \E text \in TitleTexts : gs_title = clean_title(text)
    /\ gs_pc \in {"GeneratingBody", "ResolvingImages", "ComposingDocument",
                  "Recording"} =>
           /\ op = Operation("related", gs_permalink, gs_subject, <<>>, 3)
           /\ \A i \in 1..Len(related_articles) :
                  related_articles[i].permalink # gs_permalink
    /\ gs_pc = "Done" =>
           /\ outcome.title = gs_title
           /\ outcome.permalink = gs_permalink
           /\ outcome.markdown.frontmatter.permalink = gs_permalink
           /\ op = Operation("add", gs_permalink, <<>>, <<>>, 0)
           /\ AlreadyPresent(gs_permalink)
           /\ ret = TRUE => articles[Len(articles)].permalink = gs_permalink

\* title generation failed, the article text was generated, and the request
\* returned the permalink of the fallback title
C24_Witness ==
    /\ gs_pc = "Done"
    /\ gs_subject = <<"pet", "care">>
    /\ gs_title = <<"Article", "About", "pet", "care">>
    /\ outcome.markdown.frontmatter.permalink = <<"/", "article", "about", "pet", "care">>
    /\ ret = TRUE
    /\ articles[Len(articles)].permalink = <<"/", "article", "about", "pet", "care">>

(***************************************************************************)
(* Claims about generate_tags_from_title, checked under TagsSpec           *)
(***************************************************************************)

\* C23 as stated: for every title and every subject that is not the empty
\* string, generate_tags_from_title returns at least 1 and at most 5 tags.
C23_OneToFiveTags ==
    (tags_call.called /\ tags_call.subject # <<>>) =>
        /\ ~tags_call.raises
        /\ Len(tags_call.tags) >= 1
        /\ Len(tags_call.tags) <= 5

(***************************************************************************)
(* Claims about the attempts of generate_content, checked under ClientSpec *)
(* and, for the calls of one request, under PipelineSpec                   *)
(***************************************************************************)

\* C25 as stated: in a call without a model argument every attempt posts
\* its request with the credential and with the model the cursors select
\* at that moment.
C25_AttemptUsesCursors ==
    [][(attempts' = attempts + 1 /\ model_arg \in {None, ""}) =>
           /\ request'.key = _get_current_key
           /\ request'.model = _get_current_model]_vars

\* C26 as stated: the cursors live for the process: the first attempt of
\* body generation posts its request with the credential the cursor was
\* left at by title generation of the same request.
C26_CursorsOutliveCalls ==
    [][(gs_pc = "GeneratingBody" /\ attempts = 0 /\ attempts' = 1) =>
           request'.key = apikey_file.keys[prev_key_index + 1]]_vars

\* C27 as stated: a failed attempt is followed by a delay before the next
\* attempt exactly when it failed with HTTP status 429; every failed attempt
\* rotates both cursors, and after any other failure the loop goes on at
\* once.
C27_DelayIffRateLimited ==
    [][(attempts' = attempts + 1 /\ response' # "text") =>
           /\ pc' = "sleep" <=> response' \in {"http_429", "http_429_reason"}
           /\ pc' # "sleep" => pc' = "loop"
           /\ key_rotations' = key_rotations + 1
           /\ model_rotations' = model_rotations + 1]_vars

(***************************************************************************)
(* Claims about the tiers of get_images, checked under ImagesSpec          *)
(***************************************************************************)

\* C28: the valid images of Bing's answer to the query are kept in the
\* order of the answer; when the whole answer is filtered and 3 or more are
\* valid, get_images returns exactly those and has sent no other query;
\* with fewer than 3, and only then, Yahoo is asked the same query.
C28_YahooIffBingShort ==
    [][/\ (gi_pc = "bing" /\ gi_pc' = "bing") =>
              /\ candidates # <<>>
              /\ candidates' = Tail(candidates)
              /\ all_valid_images' \in
                     {all_valid_images, Append(all_valid_images, Head(candidates))}
       /\ (gi_pc = "bing" /\ gi_pc' # "bing") =>
              /\ candidates = <<>>
              /\ fetches = <<[backend |-> "Bing", query |-> query]>>
              /\ Len(all_valid_images) >= 3 =>
                     /\ gi_pc' = "returned"
                     /\ gi_ret' = all_valid_images
                     /\ fetches' = fetches
              /\ Len(all_valid_images) < 3 =>
                     /\ gi_pc' = "yahoo"
                     /\ fetches' = Append(fetches, [backend |-> "Yahoo", query |-> query])
       /\ (Len(fetches') > Len(fetches) /\ fetches'[Len(fetches')].backend = "Yahoo") =>
              gi_pc = "bing" /\ Len(all_valid_images) < 3]_vars

\* Bing's answer had 3 valid images or more and one that was rejected;
\* they came back with no other query sent
C28_Witness ==
    /\ gi_pc = "returned"
    /\ Len(gi_ret) >= 3
    /\ fetches = <<[backend |-> "Bing", query |-> query]>>
    /\ \A i \in 1..Len(gi_ret) : gi_ret[i].source = "Bing"
    /\ valid_call.ret = TRUE
    /\ \E u \in DOMAIN cache : cache[u] = FALSE

\* C29: the alternative queries are tried when, and only when, Bing and
\* Yahoo together gave fewer than 2 valid images; each is sent to Bing, in
\* the order of the list, and none is sent once 3 or more valid images are
\* held; a call that tried them holds, and returns, at most 5 images.
C29_AlternativeQueries ==
    /\ [](gi_pc = "alt" => Len(all_valid_images) <= 5)
    /\ [][/\ (gi_pc = "yahoo" /\ gi_pc' # "yahoo") =>
                 /\ candidates = <<>>
                 /\ Len(all_valid_images) < 2 =>
                        /\ gi_pc' = "alt"
                        /\ fetches' = Append(fetches,
                               [backend |-> "Bing",
                                query |-> alternative_queries(query)[1]])
                 /\ Len(all_valid_images) >= 2 =>
                        /\ gi_pc' = "returned"
                        /\ gi_ret' = all_valid_images
                        /\ fetches' = fetches
          /\ (gi_pc = "alt" /\ Len(fetches') > Len(fetches)) =>
                 /\ candidates = <<>>
                 /\ Len(all_valid_images) < 3
                 /\ fetches' = Append(fetches,
                        [backend |-> "Bing",
                         query |-> alternative_queries(query)[Len(fetches) - 1]])
          /\ (gi_pc = "alt" /\ gi_pc' = "returned") =>
                 /\ gi_ret' = all_valid_images
                 /\ Len(gi_ret') <= 5
                 /\ Len(gi_ret') < 3 => Len(fetches) = 2 + Len(alternative_queries(query))
                 /\ fetches' = fetches]_vars

\* the second alternative query brought the total to 5 and ended the call
C29_Witness ==
    /\ gi_pc = "returned"
    /\ alt_index = 2
    /\ Len(fetches) = 4
    /\ fetches[4].query = query \o <<"high", "quality", "image">>
    /\ Len(gi_ret) = 5

(***************************************************************************)
(* Claims about the checks of is_valid_image_url that need no request,     *)
(* checked under ValidSpec                                                 *)
(***************************************************************************)

\* C30: a URL with no http:// or https:// prefix is rejected; otherwise a
\* URL holding a rejected format or pattern is rejected, on a reliable
\* domain too; otherwise a URL on a reliable domain with .jpg, .jpeg or
\* .png is accepted; none of these verdicts takes a request, and a request
\* is made only for a URL that none of the three rules decides.
C30_FastChecks ==
    LET scheme(u) == u \notin NoSchemeURLs
        denied(u) == u \in BadFormatURLs \cup BadPatternURLs
        allowed(u) == u \in ReliableDomainURLs \cap GoodExtensionURLs
        undecided(u) == scheme(u) /\ ~denied(u) /\ ~allowed(u)
    IN /\ \A u \in DOMAIN cache :
              /\ ~scheme(u) => cache[u] = FALSE
              /\ (scheme(u) /\ denied(u)) => cache[u] = FALSE
              /\ (scheme(u) /\ ~denied(u) /\ allowed(u)) => cache[u] = TRUE
       /\ \A u \in URLs : checks_made[u] > 0 => undecided(u)
       /\ valid_call.url # None =>
              /\ valid_call.ret = cache[valid_call.url]
              /\ valid_call.head # "none" => undecided(valid_call.url)

\* each rule has decided a URL without a request, the second one on a
\* reliable domain and on a pattern in capitals, and a URL of a reliable
\* domain without an extension went to the network
C30_Witness ==
    /\ {"ftp://host/a.jpg", "https://cdn.pixabay.com/logo.png",
        "https://host/Logo.JPG", "https://cdn.pixabay.com/a.jpg",
        "https://cdn.pixabay.com/a"} \subseteq DOMAIN cache
    /\ cache["ftp://host/a.jpg"] = FALSE
    /\ cache["https://cdn.pixabay.com/logo.png"] = FALSE
    /\ cache["https://host/Logo.JPG"] = FALSE
    /\ cache["https://cdn.pixabay.com/a.jpg"] = TRUE
    /\ checks_made["https://cdn.pixabay.com/a.jpg"] = 0
    /\ checks_made["https://cdn.pixabay.com/a"] = 1
    /\ valid_call.url = "https://cdn.pixabay.com/logo.png"

(***************************************************************************)
(* Claims about the network checks of is_valid_image_url, checked under    *)
(* ValidSpec                                                               *)
(***************************************************************************)

\* C31 as stated: a call that went to the network returns true only if the
\* HEAD request gave status 200 and an image content type and a size of
\* 8192 bytes or more was found, in Content-Length or in a partial read
\* that delivered 8192 bytes.
C31_SizeEstablished ==
    (valid_call.head # "none" /\ valid_call.ret = TRUE) =>
        \/ valid_call.head = "length_ok"
        \/ valid_call.head = "length_unknown" /\ valid_call.get = "full"

(***************************************************************************)
(* Claims about the order of get_related_articles, checked under           *)
(* RelatedSpec                                                             *)
(***************************************************************************)

\* the place of a result entry's record in the collection
PositionOf(permalink) ==
    CHOOSE k \in 1..Len(articles) : articles[k].permalink = permalink

\* the result of the last query is the first max_links records of the
\* matching records ranked by overlap, higher first, and by place in the
\* collection among equal overlaps
RelatedIsTop ==
    LET ov(k) == Cardinality(Words(op.subject) \cap Words(articles[k].subject))
        match == { k \in 1..Len(articles) :
                      articles[k].permalink # op.permalink /\ ov(k) > 0 }
        pos(i) == PositionOf(ret[i].permalink)
        before(a, b) == ov(a) > ov(b) \/ (ov(a) = ov(b) /\ a < b)
        taken == { pos(i) : i \in 1..Len(ret) }
    IN /\ taken \subseteq match
       /\ \A i, j \in 1..Len(ret) : i < j => before(pos(i), pos(j))
       /\ \A k \in match \ taken :
              /\ Cardinality({ a \in taken : before(a, k) }) >= op.max_links
              /\ \A a \in taken : before(a, k)
       /\ Len(ret) = IF op.max_links >= Cardinality(match) THEN Cardinality(match)
                     ELSE IF op.max_links < 0 THEN 0 ELSE op.max_links

\* C32 as stated: for every max, records of equal overlap come in their
\* storage order and the result is the first max records of the ranking; a
\* record is left out only when max records ranking before it are returned.
C32_StableTopAnyMax ==
    op.name = "related" => RelatedIsTop

\* C32 amended: the same for max >= 0.
C32_StableTop ==
    (op.name = "related" /\ op.max_links >= 0) => RelatedIsTop

\* three stored records match with the same overlap; the query for two
\* returned the first two in storage order and left the third out
C32_Witness ==
    /\ op.name = "related"
    /\ op.max_links = 2
    /\ Len(articles) = 3
    /\ Len(ret) = 2
    /\ ret[1].permalink = articles[1].permalink
    /\ ret[2].permalink = articles[2].permalink
    /\ ret[1].score = ret[2].score
    /\ Overlap(op.subject, articles[3]) = ret[2].score
    /\ articles[3].permalink # op.permalink

(***************************************************************************)
(* Claims about two stores on one file, checked under SharedSpec           *)
(***************************************************************************)

\* the records of a collection
RecordsOf(as) == { as[i] : i \in 1..Len(as) }

\* the permalinks of a collection
PermalinksOf(as) == { as[i].permalink : i \in 1..Len(as) }

\* C33: a successful add of either store overwrites the file with that
\* store's collection, so a record of the file that the writing store never
\* loaded is no longer in the file; with both stores loaded before either
\* adds, the second writer's add removes the first writer's record.
C33_LastWriterWins ==
    [][/\ articles' # articles =>
              /\ file' = JsonFile(articles')
              /\ PermalinksOf(file'.data) =
                     PermalinksOf(articles) \cup {op'.permalink}
       /\ other_store'.articles # other_store.articles =>
              /\ file' = JsonFile(other_store'.articles)
              /\ (other_store.loaded /\ file.kind = "json") =>
                     \A r \in RecordsOf(file.data) \ RecordsOf(other_store.articles) :
                         r \notin RecordsOf(file'.data)
       /\ file' # file =>
              (articles' # articles \/ other_store'.articles # other_store.articles)]_vars

\* both stores were loaded from a file without records; the first added
\* "/a" at time 0, the other added "/b" at time 1, and the file holds the
\* other's collection, without "/a"
C33_Witness ==
    /\ other_store.loaded
    /\ Len(articles) = 1 /\ articles[1].permalink = "/a" /\ articles[1].timestamp = 0
    /\ Len(other_store.articles) = 1
    /\ other_store.articles[1].permalink = "/b"
    /\ other_store.articles[1].timestamp = 1
    /\ file = JsonFile(other_store.articles)
    /\ "/a" \notin PermalinksOf(file.data)
    /\ op.name = "add" /\ op.permalink = "/a" /\ ret = TRUE

(***************************************************************************)
(* Claims about the order of the steps of generate_seo_article, checked    *)
(* under PipelineSpec                                                      *)
(***************************************************************************)

\* the steps of a request, in the order of lines 345-375
Steps ==
    <<"DetectingLanguage", "GeneratingTitle", "ComputingRelatedLinks",
      "GeneratingBody", "ResolvingImages", "ComposingDocument", "Recording",
      "Done">>

\* C34: a request begins with DetectingLanguage and leaves each step for
\* the next one of the list or for Failed, so that no step is skipped or
\* taken twice, and every step of a running request brings it nearer to
\* Done or Failed; get_related_articles is evaluated in
\* ComputingRelatedLinks only, the text client works in GeneratingTitle and
\* GeneratingBody only, the images are searched in ResolvingImages only,
\* with the generated text in hand, and the store changes in Recording only.
C34_StepsInOrder ==
    /\ [](/\ gs_pc \in {"Idle", "Failed"} \cup { Steps[i] : i \in 1..Len(Steps) }
          /\ (rp_pc # "idle" \/ gi_pc # "idle") =>
                 (gs_pc = "ResolvingImages" /\ gs_article # <<>>)
          /\ pc # "idle" => gs_pc \in {"GeneratingTitle", "GeneratingBody"})
    /\ [][/\ gs_pc' # gs_pc =>
                 \/ gs_pc \in {"Idle", "Done", "Failed"} /\ gs_pc' = "DetectingLanguage"
                 \/ \E i \in 1..(Len(Steps) - 1) :
                        gs_pc = Steps[i] /\ gs_pc' \in {Steps[i + 1], "Failed"}
          /\ Running => Rank' > Rank
          /\ (gs_pc' = gs_pc /\ Running) =>
                 gs_pc \in {"GeneratingTitle", "GeneratingBody", "ResolvingImages"}
          /\ Len(fetches') > Len(fetches) =>
                 /\ gs_pc = "ResolvingImages"
                 /\ gs_article # <<>>
          /\ attempts' > attempts => gs_pc \in {"GeneratingTitle", "GeneratingBody"}
          /\ (op' # op /\ op'.name = "related") =>
                 /\ gs_pc = "ComputingRelatedLinks"
                 /\ gs_article = <<>>
                 /\ articles' = articles
          /\ articles' # articles =>
                 /\ gs_pc = "Recording"
                 /\ gs_pc' \in {"Done", "Failed"}]_vars

\* the second request of a process has gone through every step, with a
\* generated title, related articles from the first request's record and
\* an image search, and is Done
C34_Witness ==
    /\ gs_pc = "Done"
    /\ requests = 2
    /\ cache # <<>>
    /\ \E i \in 1..Len(gs_article) : gs_article[i] = "cat"
    /\ Len(articles) = 2
    /\ Len(related_articles) = 1
    /\ gs_title # fallback_title(gs_subject)

(***************************************************************************)
(* Claims about the error comment and the queries of                       *)
(* replace_image_placeholders, checked under PlaceholderSpec               *)
(***************************************************************************)

\* text occurs in article
Occurs(article, text) ==
    \E p \in 1..(Len(article) - Len(text) + 1) :
        SubSeq(article, p, p + Len(text) - 1) = text

\* the text a resolved placeholder was replaced by
ReplacementOf(r) ==
    IF r.kind = "comment" THEN error_comment(r.description)
    ELSE img_tag(r.description, r.url)

\* C35 as stated: when an exception is raised while a placeholder is worked
\* on, the article then holds the error comment with the description of
\* that placeholder in place of the placeholder, every replacement made
\* before is still in the article, and the loop goes on to the placeholders
\* that remain, so that the call returns with every placeholder worked on.
C35_CommentAndGoOn ==
    /\ [](rp_pc = "returned" => Len(resolved) = Len(image_descriptions))
    /\ [][(Len(resolved') = Len(resolved) + 1
           /\ resolved'[Len(resolved')].kind = "comment") =>
              /\ Occurs(modified_article', error_comment(description))
              /\ ~Occurs(modified_article', Placeholder(description))
              /\ \A k \in 1..Len(resolved) :
                     Occurs(modified_article, ReplacementOf(resolved[k])) =>
                         Occurs(modified_article', ReplacementOf(resolved[k]))
              /\ IF marker_index + 1 < Len(image_descriptions)
                 THEN rp_pc' = "marker" /\ marker_index' = marker_index + 1
                 ELSE rp_pc' = "returned"]_vars

\* C36: for the placeholder in hand get_images is called with the subject
\* and the description first, then with the description, the subject, and
\* the subject with "image", each of these only after the call before it
\* returned no image, and never a fifth time; the stock image is used only
\* when the fourth call returned no image, an image only from a call that
\* returned one.
C36_FourQueriesInOrder ==
    /\ [](search_attempts <= 3 /\ rp_pc # "backup")
    /\ [][/\ (gi_pc \in {"idle", "returned"} /\ gi_pc' = "bing") =>
                 /\ rp_pc' = "searching"
                 /\ marker_index' = marker_index
                 /\ query' = (CASE search_attempts' = 0 -> rp_subject \o description
                                [] search_attempts' = 1 -> description
                                [] search_attempts' = 2 -> rp_subject
                                [] search_attempts' = 3 -> rp_subject \o <<"image">>)
                 /\ IF rp_pc = "marker" THEN search_attempts' = 0
                    ELSE /\ rp_pc = "searching"
                         /\ gi_pc = "returned" /\ gi_ret = <<>>
                         /\ search_attempts' = search_attempts + 1
          /\ Len(resolved') = Len(resolved) + 1 =>
                 LET r == resolved'[Len(resolved')]
                 IN /\ r.kind = "stock" =>
                           /\ rp_pc = "searching" /\ search_attempts = 3
                           /\ gi_pc = "returned" /\ gi_ret = <<>>
                           /\ query = rp_subject \o <<"image">>
                    /\ r.kind = "image" =>
                           /\ rp_pc = "searching"
                           /\ gi_pc = "returned" /\ gi_ret # <<>>]_vars

\* the second placeholder of an article got the stock image after its four
\* queries; the first one had got an image
C36_Witness ==
    /\ Len(resolved) = 2
    /\ resolved[1].kind = "image"
    /\ resolved[2].kind = "stock"
    /\ resolved[2].url = reliable_stock_images[2]
    /\ search_attempts = 3
    /\ query = rp_subject \o <<"image">>
    /\ gi_ret = <<>>

(***************************************************************************)
(* Claims about a store constructed on an unreadable file, checked under   *)
(* UnreadableSpec                                                          *)
(***************************************************************************)

C38_CursorsInRange ==
    Len(api_keys) >= 1 =>
        /\ current_key_index \in 0..(Len(api_keys) - 1)
        /\ current_model_index \in 0..(Len(models) - 1)

\* Both cursors have gone round their sequences and stand on the last entry
C38_Witness ==
    /\ Len(api_keys) >= 2
    /\ key_rotations > Len(api_keys)
    /\ model_rotations > Len(models)
    /\ current_key_index = Len(api_keys) - 1
    /\ current_model_index = Len(models) - 1

(***************************************************************************)
(* Claims about the image chosen for a placeholder, checked under          *)
(* PlaceholderSpec                                                         *)
(***************************************************************************)

\* get_images has returned candidates for the placeholder in hand
ImagesFound ==
    /\ rp_pc \in {"searching", "backup"}
    /\ gi_pc = "returned"
    /\ gi_ret # <<>>

\* The re-validation of line 180 is answered by the cache, the first
\* candidate is chosen, and neither the other candidates nor the backup
\* queries are tried
FirstCandidateChosen ==
    /\ [](rp_pc # "backup")
    /\ [](ImagesFound => /\ Cached(gi_ret[1].url)
                         /\ cache[gi_ret[1].url])
    /\ [][ImagesFound =>
              /\ checks_made' = checks_made
              /\ cache' = cache
              /\ fetches' = fetches
              /\ Len(resolved') = Len(resolved) + 1
              /\ resolved'[Len(resolved')] =
                     [description |-> description, kind |-> "image",
                      url |-> gi_ret[1].url]]_vars

\* C39 as stated: whenever get_images returns candidates for a placeholder,
\* the placeholder is replaced with the image tag of the first candidate's
\* URL; the re-validation is answered by the cache without a request, and
\* the other candidates and the backup queries are never tried.
C39_FirstCandidateInArticle ==
    /\ FirstCandidateChosen
    /\ [][ImagesFound =>
              /\ Occurs(modified_article', img_tag(description, gi_ret[1].url))
              /\ ~Occurs(modified_article', Placeholder(description))]_vars


=========================================================================
